---- MODULE Spec2Model ----
(***************************************************************************)
(* Leaderboard core of sarthakkjha/matiks: the ranking snapshot            *)
(* (backend/engine/snapshot.go), the entry cache (backend/cache/cache.go)  *)
(* and the debounced rebuild scheduler (backend/services/leaderboard.go).  *)
(*                                                                         *)
(* The specifications share the variables:                                 *)
(*   SpecEngine   the snapshot engine, one call at a time                  *)
(*   SpecSwap     Rebuild's publication against concurrent readers         *)
(*   Spec         the service: cache, scheduler, timer and clock           *)
(*   FairSpec     accepted calls, the timer runtime and the clock fair     *)
(*   SpecTrickle  a stream of score updates, staleness and bursts recorded *)
(*   SpecSpaced   score updates spaced beyond the ceiling, and timed       *)
(*   SpecTimed    score updates at any moment, and timed                   *)
(*   SpecCounters score and bulk updates at any moment, and counted        *)
(*   SpecCalls    every handler with every input, the calls recorded       *)
(*   SpecCache    the entry cache's Set, Get, Delete, Size and Clear        *)
(*   SpecSearch   UserCache.SearchByPrefix on caches drawn by Init         *)
(*   SpecRace     two writers of one user, statement by statement          *)
(*   SpecSerial   the scheduler's critical sections, statement by statement *)
(*   SpecSets     concurrent Set calls on the cache, by statement           *)
(*   SpecScan     GetAllWithIDs beside Set and Delete calls, by statement *)
(*   SpecOrder    cache scans and publications beside Set calls, logged   *)
(*   SpecLocks    the four locks, acquisition by acquisition              *)
(*   SpecBulk     a bulk update beside Delete and UpdateScore, by statement *)
(***************************************************************************)
EXTENDS Integers, Sequences, FiniteSets, TLC

VARIABLES
    entries,        \* Snapshot.entries: published sequence of RankedEntry
    rankIndex,      \* Snapshot.rankIndex: published map userID -> rank
    data,           \* the mapping handed to the latest Rebuild call
    resp,           \* what the call that just returned gave back
    mu,             \* Snapshot.mu (sync.RWMutex): writer flag and reader count
    pub,            \* which Rebuild call wrote each published field (0: construction)
    rb,             \* the Rebuild call in flight: position and local variables
    rd,             \* the read calls in flight: position and local variables
    main,           \* main(): "init" before services.Initialize, then "serving"
    db,             \* the users collection: id -> [Username, Score]
    cache,          \* cache.Global.data: id -> Entry
    pendingUpdates, \* services.pendingUpdates
    sinceLastRebuild, \* time.Since(lastRebuild) in ms, kept up to MaxRebuildDelayMS
    rebuildTimer,   \* services.rebuildTimer: the timer it points to, and the ms left
    callbacks,      \* timer callbacks started and not yet holding rebuildMu
    stats,          \* services.stats
    staleFor,       \* history: ms since the cache left what is published (-1: it has not)
    burst,          \* history: the run of write notifications being followed
    forced,         \* history: ForceRebuild returned and no write was notified since
    watch,          \* history: whether staleFor and burst are being recorded
    req,            \* history: the arguments of the call that just returned and the
                    \* store's answers to it, where calls are recorded (req.on)
    ops,            \* history: the Set, Delete and Clear calls made on the cache directly
    wr,             \* the calls in flight, statement by statement: position and locals
    locks,          \* who holds services.rebuildMu and cache.Global.mu ("free": nobody)
    spaced          \* history: the write notifications so far and the time between them,
                    \* where they are being timed (spaced.on)

engineVars == <<entries, rankIndex, data, resp>>

swapVars == <<mu, pub, rb, rd>>

callVars == <<req, ops, wr, spaced, locks>>

svcVars == <<main, db, cache, pendingUpdates, sinceLastRebuild, rebuildTimer, callbacks,
             stats, staleFor, burst, forced, watch>>

vars == <<entries, rankIndex, data, resp, mu, pub, rb, rd,
          main, db, cache, pendingUpdates, sinceLastRebuild, rebuildTimer, callbacks,
          stats, staleFor, burst, forced, watch, req, ops, wr, spaced, locks>>

(***************************************************************************)
(* Data domain.  Usernames are Go strings, kept as byte sequences so that  *)
(* the comparator's < is the bytewise lexicographic order of Go.           *)
(***************************************************************************)
UserIDs == {"u1", "u2", "u3"}

Usernames == {<<97>>, <<98>>}

Scores == {4998, 5000}

Entry == [Username : Usernames, Score : Scores]

\* every map[string]cache.Entry over the domain
CacheMaps == UNION {[S -> Entry] : S \in SUBSET UserIDs}

EmptyMap == [id \in {} |-> 0]

MaxLimit == 2

MaxPage == 3

Min(a, b) == IF a < b THEN a ELSE b

\* Go's string <: bytewise lexicographic
StrLess(a, b) ==
    \/ \E i \in 1..Min(Len(a), Len(b)) :
          /\ a[i] < b[i]
          /\ \A k \in 1..(i - 1) : a[k] = b[k]
    \/ /\ Len(a) < Len(b)
       /\ \A k \in 1..Len(a) : a[k] = b[k]

(***************************************************************************)
(* Snapshot.Rebuild                                                        *)
(***************************************************************************)
\* the entries list built from the map, before sorting (Rank still zero)
Materialize(d) ==
    {[UserID |-> id, Username |-> d[id].Username, Score |-> d[id].Score, Rank |-> 0] :
        id \in DOMAIN d}

\* a mutant: the comparator looks at the score only
LessByScore(x, y) == x.Score > y.Score

\* the sort.Slice comparator: score descending, then username ascending
Less(x, y) ==
    IF x.Score = y.Score THEN StrLess(x.Username, y.Username) ELSE x.Score > y.Score

\* sort.Slice over a slice filled in map-iteration order: the map order is
\* unspecified and the sort is not stable, so every arrangement that is
\* sorted under the comparator is a possible outcome.
SortSlice(S) ==
    {s \in [1..Cardinality(S) -> S] :
        /\ \A i, j \in 1..Cardinality(S) : i # j => s[i] # s[j]
        /\ \A i, j \in 1..Cardinality(S) : i < j => ~Less(s[j], s[i])}

\* a mutant: dense ranking (the rank after a tie does not skip)
AssignRanksDense(es) ==
    LET cr[i \in 1..Len(es)] ==
            IF i = 1 THEN 1
            ELSE IF es[i].Score # es[i - 1].Score THEN cr[i - 1] + 1 ELSE cr[i - 1]
    IN  [i \in 1..Len(es) |-> [es[i] EXCEPT !.Rank = cr[i]]]

\* the rank pass: currentRank starts at 1 and becomes the 1-based position
\* whenever the score differs from the previous entry's
AssignRanks(es) ==
    LET cr[i \in 1..Len(es)] ==
            IF i = 1 THEN 1
            ELSE IF es[i].Score # es[i - 1].Score THEN i ELSE cr[i - 1]
    IN  [i \in 1..Len(es) |-> [es[i] EXCEPT !.Rank = cr[i]]]

\* a mutant: the index misses the first entry (loop started one late)
BuildRankIndexSkipFirst(es) ==
    [id \in {es[i].UserID : i \in 2..Len(es)} |->
        es[CHOOSE i \in 2..Len(es) : es[i].UserID = id].Rank]

\* rankIndex[entries[i].UserID] = currentRank, written in the same pass
BuildRankIndex(es) ==
    [id \in {es[i].UserID : i \in 1..Len(es)} |->
        es[CHOOSE i \in 1..Len(es) :
              /\ es[i].UserID = id
              /\ \A j \in (i + 1)..Len(es) : es[j].UserID # id].Rank]

\* the (entries, rankIndex) pairs one Rebuild(d) call can publish
RebuildResults(d) ==
    {[entries |-> AssignRanks(s), rankIndex |-> BuildRankIndex(AssignRanks(s))] :
        s \in SortSlice(Materialize(d))}

(***************************************************************************)
(* Snapshot reads                                                          *)
(***************************************************************************)
\* a mutant: the page start is page * limit (the first page is lost)
GetLeaderboardOffByOne(es, page, limit) ==
    LET total == Len(es)
        start == page * limit
        end   == Min(start + limit, total)
    IN  IF start >= total
        THEN [entries |-> <<>>, total |-> total]
        ELSE [entries |-> SubSeq(es, start + 1, end), total |-> total]

\* GetLeaderboard(page, limit): s.entries[start:end] and the total
GetLeaderboard(es, page, limit) ==
    LET total == Len(es)
        start == (page - 1) * limit
        end   == Min(start + limit, total)
    IN  IF start >= total
        THEN [entries |-> <<>>, total |-> total]
        ELSE [entries |-> SubSeq(es, start + 1, end), total |-> total]

\* GetLeaderboard panics where make([]RankedEntry, end-start) gets a negative
\* length or s.entries[start:end] a negative start
GetLeaderboardPanics(es, page, limit) ==
    LET total == Len(es)
        start == (page - 1) * limit
        end   == Min(start + limit, total)
    IN  start < total /\ (end - start < 0 \/ start < 0)

\* a mutant: the clamp stops one short of len(s.entries)
GetTopClampShort(es, n) == SubSeq(es, 1, Min(n, Len(es) - 1))

\* GetTop(n), where it returns: the first min(n, len) entries
GetTop(es, n) == SubSeq(es, 1, Min(n, Len(es)))

\* GetTop panics where make([]RankedEntry, n) gets a negative length
GetTopPanics(es, n) == Min(n, Len(es)) < 0

\* a mutant: an ID that is not ranked reads as one past the last position
GetRankMissingIsLast(ri, id) == IF id \in DOMAIN ri THEN ri[id] ELSE Cardinality(DOMAIN ri) + 1

\* GetRank(userID): a missing key reads as Go's zero value
GetRank(ri, id) == IF id \in DOMAIN ri THEN ri[id] ELSE 0

Size(es) == Len(es)

(***************************************************************************)
(* SpecEngine: the engine called sequentially                              *)
(***************************************************************************)
\* op: the call; err: its error; ran: the Rebuild calls it made; val: the
\* rank or the updated count it reports
Resp(op, err, ran, val) == [op |-> op, err |-> err, ran |-> ran, val |-> val]

NoResp == [op |-> "none"]

\* calls are not recorded
NoReq == [on |-> FALSE]

Writers == {"w1", "w2"}

WrIdle == [w \in Writers |-> [pc |-> "idle"]]

LocksFree == [rebuildMu |-> "free", mu |-> "free"]

\* write notifications are not timed
NoSpaced == [on |-> FALSE]

Readers == {"r1", "r2"}

MuFree == [writer |-> FALSE, readers |-> 0]

RbIdle == [pc |-> "idle"]

RdIdle == [pc |-> "idle"]

\* the engine as constructed: var Global = &Snapshot{...}
SnapshotInit ==
    /\ entries = <<>>
    /\ rankIndex = EmptyMap
    /\ mu = MuFree
    /\ pub = [entries |-> 0, rankIndex |-> 0, calls |-> 0]
    /\ rb = RbIdle
    /\ rd = [r \in Readers |-> RdIdle]

\* const RebuildDelayMS: the quiet period of the debounce
RebuildDelayMS == 100

\* const MaxRebuildDelayMS: the staleness ceiling
MaxRebuildDelayMS == 500

\* the inclusive score range of CreateUser, UpdateScore and BulkUpdateToValue
MinScore == 100

MaxScore == 5000

\* the clock advances in steps of half a quiet period
Tick == RebuildDelayMS \div 2

\* history values stop growing here
StaleCap == MaxRebuildDelayMS + Tick

NoTimer == [state |-> "nil", left |-> 0]

\* burst.n and burst.rebuilds count 0, 1, "2 or more"
NoBurst == [open |-> FALSE, n |-> 0, quiet |-> 0, rebuilds |-> 0, ceiling |-> FALSE]

\* the package-level variables of services as declared: the zero time.Time
\* of lastRebuild lies further back than any ceiling
SchedulerInit ==
    /\ pendingUpdates = 0
    /\ sinceLastRebuild = MaxRebuildDelayMS
    /\ rebuildTimer = NoTimer
    /\ callbacks = 0
    /\ stats = [TotalUpdates |-> 0, RebuildsTriggered |-> 0,
                AvgUpdatesPerRebuild |-> [num |-> 0, den |-> 1]]
    /\ staleFor = -1
    /\ burst = NoBurst
    /\ forced = FALSE
    /\ watch = FALSE
    /\ req = NoReq
    /\ ops = <<>>
    /\ wr = WrIdle
    /\ locks = LocksFree
    /\ spaced = NoSpaced

\* the service before main() has run, over an empty users collection
ServiceIdle ==
    /\ main = "init"
    /\ db = EmptyMap
    /\ cache = EmptyMap
    /\ SchedulerInit

EngineInit ==
    /\ SnapshotInit
    /\ ServiceIdle
    /\ data = EmptyMap
    /\ resp = NoResp

Rebuild(d) ==
    /\ \E r \in RebuildResults(d) :
          /\ entries' = r.entries
          /\ rankIndex' = r.rankIndex
    /\ data' = d
    /\ resp' = [op |-> "Rebuild"]
    /\ UNCHANGED <<swapVars, svcVars, callVars>>

CallGetLeaderboard(page, limit) ==
    /\ resp' = [op |-> "GetLeaderboard", page |-> page, limit |-> limit,
                panicked |-> GetLeaderboardPanics(entries, page, limit),
                result |-> GetLeaderboard(entries, page, limit)]
    /\ UNCHANGED <<entries, rankIndex, data, swapVars, svcVars, callVars>>

CallGetTop(n) ==
    /\ resp' = [op |-> "GetTop", n |-> n, panicked |-> GetTopPanics(entries, n),
                result |-> GetTop(entries, n)]
    /\ UNCHANGED <<entries, rankIndex, data, swapVars, svcVars, callVars>>

CallGetRank(id) ==
    /\ resp' = [op |-> "GetRank", id |-> id, panicked |-> FALSE,
                result |-> GetRank(rankIndex, id)]
    /\ UNCHANGED <<entries, rankIndex, data, swapVars, svcVars, callVars>>

CallSize ==
    /\ resp' = [op |-> "Size", panicked |-> FALSE, result |-> Size(entries)]
    /\ UNCHANGED <<entries, rankIndex, data, swapVars, svcVars, callVars>>

EngineNext ==
    \/ \E d \in CacheMaps : Rebuild(d)
    \/ \E page \in 1..MaxPage, limit \in -1..MaxLimit : CallGetLeaderboard(page, limit)
    \/ \E n \in -1..(MaxLimit + 2) : CallGetTop(n)
    \/ \E id \in UserIDs \cup {"unknown-id"} : CallGetRank(id)
    \/ CallSize

SpecEngine == EngineInit /\ [][EngineNext]_vars

(***************************************************************************)
(* SpecSwap: one Rebuild call, statement by statement, against read calls  *)
(* that take the read lock, read the published fields and release it.      *)
(***************************************************************************)
MaxRebuilds == 2

\* the mappings rebuilt in this specification
SwapInputs ==
    {d \in CacheMaps :
        /\ DOMAIN d \in {{"u1"}, {"u1", "u2"}}
        /\ \A id \in DOMAIN d : d[id].Username = <<97>>
        /\ d["u1"].Score = 5000}

\* the read calls issued in this specification
SwapCalls ==
    {[op |-> "GetLeaderboard", page |-> p, limit |-> 1, id |-> "", n |-> 0] : p \in 1..2}
    \cup {[op |-> "GetTop", page |-> 0, limit |-> 0, id |-> "", n |-> 1],
          [op |-> "GetRank", page |-> 0, limit |-> 0, id |-> "u2", n |-> 0],
          [op |-> "Size", page |-> 0, limit |-> 0, id |-> "", n |-> 0]}

\* a mutant: the write lock is granted while readers hold the read lock
CanLockDespiteReaders(m) == ~m.writer

\* s.mu.Lock() returns once no writer and no reader holds the mutex
CanLock(m) == ~m.writer /\ m.readers = 0

\* s.mu.RLock() returns once no writer holds the mutex
CanRLock(m) == ~m.writer

\* Rebuild, lines 48-74: materialize, sort, assign ranks, build the index,
\* all on local variables
RebuildBuild(d) ==
    /\ rb.pc = "idle"
    /\ pub.calls < MaxRebuilds
    /\ \E r \in RebuildResults(d) :
          rb' = [pc |-> "lock", entries |-> r.entries, rankIndex |-> r.rankIndex,
                 call |-> pub.calls + 1]
    /\ pub' = [pub EXCEPT !.calls = @ + 1]
    /\ data' = d
    /\ UNCHANGED <<entries, rankIndex, resp, mu, rd, svcVars, callVars>>

\* s.mu.Lock()
RebuildLock ==
    /\ rb.pc = "lock"
    /\ CanLock(mu)
    /\ mu' = [mu EXCEPT !.writer = TRUE]
    /\ rb' = [rb EXCEPT !.pc = "setEntries"]
    /\ UNCHANGED <<entries, rankIndex, data, resp, pub, rd, svcVars, callVars>>

\* s.entries = entries
RebuildSetEntries ==
    /\ rb.pc = "setEntries"
    /\ entries' = rb.entries
    /\ pub' = [pub EXCEPT !.entries = rb.call]
    /\ rb' = [rb EXCEPT !.pc = "setRankIndex"]
    /\ UNCHANGED <<rankIndex, data, resp, mu, rd, svcVars, callVars>>

\* s.rankIndex = rankIndex
RebuildSetRankIndex ==
    /\ rb.pc = "setRankIndex"
    /\ rankIndex' = rb.rankIndex
    /\ pub' = [pub EXCEPT !.rankIndex = rb.call]
    /\ rb' = [rb EXCEPT !.pc = "unlock"]
    /\ UNCHANGED <<entries, data, resp, mu, rd, svcVars, callVars>>

\* s.mu.Unlock(), and Rebuild returns
RebuildUnlock ==
    /\ rb.pc = "unlock"
    /\ mu' = [mu EXCEPT !.writer = FALSE]
    /\ rb' = RbIdle
    /\ UNCHANGED <<entries, rankIndex, data, resp, pub, rd, svcVars, callVars>>

\* s.mu.RLock() at the top of GetLeaderboard, GetTop, GetRank and Size
ReadRLock(r, call) ==
    /\ rd[r].pc = "idle"
    /\ CanRLock(mu)
    /\ mu' = [mu EXCEPT !.readers = @ + 1]
    /\ rd' = [rd EXCEPT ![r] =
                 [pc |-> IF call.op = "GetRank" THEN "index" ELSE "len",
                  call |-> call, seen |-> {}, total |-> 0, result |-> <<>>,
                  panicked |-> FALSE]]
    /\ UNCHANGED <<entries, rankIndex, data, resp, pub, rb, svcVars, callVars>>

\* len(s.entries): the total of GetLeaderboard, the clamp of GetTop, Size's result
ReadLen(r) ==
    /\ rd[r].pc = "len"
    /\ rd' = [rd EXCEPT ![r] =
                 [@ EXCEPT !.pc = IF rd[r].call.op = "Size" THEN "unlock" ELSE "copy",
                           !.total = Len(entries),
                           !.result = IF rd[r].call.op = "Size" THEN Len(entries) ELSE <<>>,
                           !.seen = @ \cup {pub.entries}]]
    /\ UNCHANGED <<entries, rankIndex, data, resp, mu, pub, rb, svcVars, callVars>>

\* copy(result, s.entries[start:end]) with the bounds computed from the
\* length read before; a range outside the slice panics
ReadCopy(r) ==
    /\ rd[r].pc = "copy"
    /\ LET c     == rd[r].call
           start == IF c.op = "GetTop" THEN 0 ELSE (c.page - 1) * c.limit
           end   == IF c.op = "GetTop" THEN Min(c.n, rd[r].total)
                    ELSE Min(start + c.limit, rd[r].total)
           empty == c.op = "GetLeaderboard" /\ start >= rd[r].total
           inRange == empty \/ end <= Len(entries)
           res   == IF empty \/ ~inRange THEN <<>> ELSE SubSeq(entries, start + 1, end)
       IN  rd' = [rd EXCEPT ![r] =
                     [@ EXCEPT !.pc = "unlock", !.result = res,
                               !.panicked = ~inRange,
                               !.seen = IF empty THEN @ ELSE @ \cup {pub.entries}]]
    /\ UNCHANGED <<entries, rankIndex, data, resp, mu, pub, rb, svcVars, callVars>>

\* s.rankIndex[userID]
ReadIndex(r) ==
    /\ rd[r].pc = "index"
    /\ rd' = [rd EXCEPT ![r] =
                 [@ EXCEPT !.pc = "unlock",
                           !.result = GetRank(rankIndex, rd[r].call.id),
                           !.seen = @ \cup {pub.rankIndex}]]
    /\ UNCHANGED <<entries, rankIndex, data, resp, mu, pub, rb, svcVars, callVars>>

\* the deferred s.mu.RUnlock(), and the call returns its result
ReadRUnlock(r) ==
    /\ rd[r].pc = "unlock"
    /\ mu' = [mu EXCEPT !.readers = @ - 1]
    /\ rd' = [rd EXCEPT ![r] = RdIdle]
    /\ resp' = [op |-> rd[r].call.op, result |-> rd[r].result]
    /\ UNCHANGED <<entries, rankIndex, data, pub, rb, svcVars, callVars>>

SwapNext ==
    \/ \E d \in SwapInputs : RebuildBuild(d)
    \/ RebuildLock
    \/ RebuildSetEntries
    \/ RebuildSetRankIndex
    \/ RebuildUnlock
    \/ \E r \in Readers, call \in SwapCalls : ReadRLock(r, call)
    \/ \E r \in Readers : ReadLen(r)
    \/ \E r \in Readers : ReadCopy(r)
    \/ \E r \in Readers : ReadIndex(r)
    \/ \E r \in Readers : ReadRUnlock(r)

SpecSwap == EngineInit /\ [][SwapNext]_vars

\* the read calls between their RLock and their RUnlock
Inside == {r \in Readers : rd[r].pc # "idle"}

\* C2: under any interleaving of Rebuild with read calls, each read is
\* served from one complete generation: while a read call holds the read
\* lock the published entries and rankIndex were written by the same Rebuild
\* call, they are that call's finished pair, everything the read has read
\* comes from that one generation, and no read ran past the slice.
C2_ReadsSeeOneGeneration ==
    \A r \in Inside :
        /\ pub.entries = pub.rankIndex
        /\ rankIndex = BuildRankIndex(entries)
        /\ \A i \in 1..Len(entries) : entries[i].Rank >= 1
        /\ rd[r].seen \subseteq {pub.entries}
        /\ ~rd[r].panicked

\* a read that holds the read lock, has read the length, and is waited for
\* by a Rebuild call standing at s.mu.Lock() with the next generation
C2_Witness ==
    /\ rb.pc = "lock"
    /\ pub.entries = 1
    /\ \E r \in Readers :
          /\ rd[r].pc = "copy"
          /\ rd[r].seen = {1}
          /\ rd[r].total = 2
    /\ rb.call = 2


(***************************************************************************)
(* The service: handlers over the durable store, the cache, the snapshot   *)
(* and the rebuild scheduler.  scheduleRebuild, the timer callback and     *)
(* ForceRebuild each run under rebuildMu from start to end, so each is one *)
(* step; a timer that has fired and whose callback waits for rebuildMu is  *)
(* counted in callbacks.                                                   *)
(***************************************************************************)
MaxUpdates == 2

MaxTrickle == 10

MaxCount == 1

MaxBulk == 3

\* the IDs the store hands out, in order
SvcIDs == <<"u1", "u2">>

SvcNames == {<<97>>}

ValidScores == {MinScore, MaxScore}

InputScores == {MinScore - 1, MinScore, MaxScore, MaxScore + 1}

InitialDBs ==
    {EmptyMap} \cup
    {[id \in {"u1"} |-> [Username |-> <<97>>, Score |-> MinScore]]}

\* the variables a handler reads and writes, as one record; ran counts the
\* engine.Global.Rebuild calls the handler has made
Cur ==
    [db |-> db, cache |-> cache, entries |-> entries, rankIndex |-> rankIndex,
     data |-> data, pendingUpdates |-> pendingUpdates,
     sinceLastRebuild |-> sinceLastRebuild, rebuildTimer |-> rebuildTimer,
     stats |-> stats, staleFor |-> staleFor, ran |-> 0]

Commit(s) ==
    /\ db' = s.db
    /\ cache' = s.cache
    /\ entries' = s.entries
    /\ rankIndex' = s.rankIndex
    /\ data' = s.data
    /\ pendingUpdates' = s.pendingUpdates
    /\ sinceLastRebuild' = s.sinceLastRebuild
    /\ rebuildTimer' = s.rebuildTimer
    /\ stats' = s.stats
    /\ staleFor' = s.staleFor

\* m[id] = e on a Go map
MapSet(m, id, e) == [x \in DOMAIN m \cup {id} |-> IF x = id THEN e ELSE m[x]]

\* the published snapshot is a ranking of exactly this cache content
RanksCache(es, ri, c) == [entries |-> es, rankIndex |-> ri] \in RebuildResults(c)

\* UserCache.Set
CacheSet(s, id, e) ==
    LET c == MapSet(s.cache, id, e)
    IN  [s EXCEPT !.cache = c,
                  !.staleFor = IF ~watch \/ RanksCache(s.entries, s.rankIndex, c) THEN -1
                               ELSE IF @ = -1 THEN 0 ELSE @]

\* UserCache.Get: the zero Entry when the key is absent
CacheGet(c, id) == IF id \in DOMAIN c THEN c[id] ELSE [Username |-> <<>>, Score |-> 0]

\* engine.Global.Rebuild(cache.Global.GetAllWithIDs()), publishing snap
RebuildFromCache(s, snap) ==
    [s EXCEPT !.entries = snap.entries, !.rankIndex = snap.rankIndex,
              !.data = s.cache, !.ran = @ + 1, !.staleFor = -1]

\* rebuildTimer.Stop(): an armed timer will not fire, a fired one is past stopping
TimerStop(t) == IF t.state = "armed" THEN [state |-> "stopped", left |-> 0] ELSE t

\* a mutant: executeRebuild leaves pendingUpdates as it is
ExecuteRebuildKeepsPending(s, snap) ==
    LET n  == s.stats.RebuildsTriggered + 1
        s1 == [s EXCEPT !.sinceLastRebuild = 0,
                        !.stats.RebuildsTriggered = n,
                        !.stats.AvgUpdatesPerRebuild =
                            IF n > 0 THEN [num |-> s.stats.TotalUpdates, den |-> n] ELSE @]
    IN  RebuildFromCache(s1, snap)

\* a mutant: the average is taken before the rebuild is counted
ExecuteRebuildAverageFirst(s, snap) ==
    LET n  == s.stats.RebuildsTriggered + 1
        s1 == [s EXCEPT !.pendingUpdates = 0,
                        !.sinceLastRebuild = 0,
                        !.stats.RebuildsTriggered = n,
                        !.stats.AvgUpdatesPerRebuild =
                            IF n > 1 THEN [num |-> s.stats.TotalUpdates, den |-> n - 1]
                                     ELSE @]
    IN  RebuildFromCache(s1, snap)

\* executeRebuild
ExecuteRebuild(s, snap) ==
    LET n  == s.stats.RebuildsTriggered + 1
        s1 == [s EXCEPT !.pendingUpdates = 0,
                        !.sinceLastRebuild = 0,
                        !.stats.RebuildsTriggered = n,
                        !.stats.AvgUpdatesPerRebuild =
                            IF n > 0 THEN [num |-> s.stats.TotalUpdates, den |-> n] ELSE @]
    IN  RebuildFromCache(s1, snap)

\* a mutant: every notification rebuilds at once, nothing is debounced
ScheduleRebuildEager(s, snap) ==
    ExecuteRebuild([s EXCEPT !.pendingUpdates = @ + 1, !.stats.TotalUpdates = @ + 1], snap)

\* a mutant: the timer the scheduler arms is one that never fires
TimerAfterFuncStopped == [state |-> "stopped", left |-> 0]

\* time.AfterFunc(RebuildDelayMS * time.Millisecond, ...)
TimerAfterFunc == [state |-> "armed", left |-> RebuildDelayMS]

\* a mutant: below the ceiling no timer is armed
ScheduleRebuildNoTimer(s, snap) ==
    LET s1 == [s EXCEPT !.pendingUpdates = @ + 1, !.stats.TotalUpdates = @ + 1]
    IN  IF s1.sinceLastRebuild >= MaxRebuildDelayMS /\ s1.pendingUpdates > 0
        THEN ExecuteRebuild(s1, snap)
        ELSE [s1 EXCEPT !.rebuildTimer = TimerStop(@)]

\* a mutant: the ceiling is taken only once the delay is exceeded
ScheduleRebuildStrict(s, snap) ==
    LET s1 == [s EXCEPT !.pendingUpdates = @ + 1, !.stats.TotalUpdates = @ + 1]
    IN  IF s1.sinceLastRebuild > MaxRebuildDelayMS /\ s1.pendingUpdates > 0
        THEN ExecuteRebuild(s1, snap)
        ELSE [s1 EXCEPT !.rebuildTimer = TimerAfterFunc]

\* scheduleRebuild, the part under rebuildMu
ScheduleRebuild(s, snap) ==
    LET s1 == [s EXCEPT !.pendingUpdates = @ + 1, !.stats.TotalUpdates = @ + 1]
    IN  IF s1.sinceLastRebuild >= MaxRebuildDelayMS /\ s1.pendingUpdates > 0
        THEN ExecuteRebuild(s1, snap)
        ELSE [s1 EXCEPT !.rebuildTimer = TimerAfterFunc]

\* a mutant: ForceRebuild resets the scheduler and publishes nothing
ForceRebuildPublishesNothing(s, snap) ==
    [s EXCEPT !.rebuildTimer = TimerStop(@),
              !.pendingUpdates = 0,
              !.sinceLastRebuild = 0,
              !.ran = @ + 1]

\* ForceRebuild
ForceRebuild(s, snap) ==
    RebuildFromCache([s EXCEPT !.rebuildTimer = TimerStop(@),
                               !.pendingUpdates = 0,
                               !.sinceLastRebuild = 0], snap)

\* a debounce timer is armed, or its callback is about to run
Outstanding == rebuildTimer.state = "armed" \/ callbacks > 0

\* history of a write notification that made ran rebuilds inside the call
BurstOnWrite(ran) ==
    LET hit == sinceLastRebuild >= MaxRebuildDelayMS
    IN  IF ~watch
        THEN NoBurst
        ELSE IF burst.open /\ burst.quiet < RebuildDelayMS
        THEN [burst EXCEPT !.n = Min(@ + 1, 2), !.quiet = 0,
                           !.rebuilds = Min(@ + ran, 2), !.ceiling = @ \/ hit]
        ELSE IF ~Outstanding
        THEN [open |-> TRUE, n |-> 1, quiet |-> 0, rebuilds |-> ran, ceiling |-> hit]
        ELSE NoBurst

\* the longest time between two write notifications that is told apart
SpacedCap == 2 * MaxRebuildDelayMS + Tick

\* history of a write notification that made ran rebuilds inside the call:
\* one more write, last ms after the one before; total is the time from the
\* first write to this one, pend the writes since the latest rebuild
SpacedOnWrite(ran) ==
    IF ~spaced.on
    THEN spaced
    ELSE [spaced EXCEPT !.n = @ + 1, !.last = 0,
                        !.total = IF spaced.n = 0 THEN 0 ELSE @ + spaced.last,
                        !.pend = IF ran > 0 THEN 0 ELSE @ + 1]

\* history of a rebuild made outside a write notification
SpacedOnRebuild == IF spaced.on THEN [spaced EXCEPT !.pend = 0] ELSE spaced

\* a handler that wrote and notified the scheduler, ending in state t
Notified(t) ==
    /\ Commit(t)
    /\ burst' = BurstOnWrite(t.ran)
    /\ spaced' = SpacedOnWrite(t.ran)
    /\ forced' = FALSE
    /\ UNCHANGED <<main, callbacks, swapVars, watch>>

\* a handler that ended in ForceRebuild, in state t
Forced(t) ==
    /\ Commit(t)
    /\ burst' = NoBurst
    /\ forced' = TRUE
    /\ spaced' = SpacedOnRebuild
    /\ UNCHANGED <<callbacks, swapVars, watch>>

\* a mutant: the error is returned after the write was counted as pending
RejectedOnceCounted(op, err) ==
    /\ resp' = Resp(op, err, 0, 0)
    /\ pendingUpdates' = pendingUpdates + 1
    /\ UNCHANGED <<entries, rankIndex, data, swapVars, main, db, cache, sinceLastRebuild,
                   rebuildTimer, callbacks, stats, staleFor, burst, forced, watch,
                   spaced>>

\* a handler that returned an error before writing anything
Rejected(op, err) ==
    /\ resp' = Resp(op, err, 0, 0)
    /\ UNCHANGED <<entries, rankIndex, data, swapVars, svcVars, spaced>>

\* a mutant: no score is refused
OutOfRangeNever(score) == FALSE

\* a mutant: the range check excludes its two bounds
OutOfRangeExclusive(score) == score <= MinScore \/ score >= MaxScore

\* score < 100 || score > 5000
OutOfRange(score) == score < MinScore \/ score > MaxScore

\* what is recorded about a call, in the specification that records calls
Asked(r) == IF req.on THEN r ELSE req

\* Initialize: load every user into the cache, then ForceRebuild
Initialize(ok) ==
    /\ main = "init"
    /\ UNCHANGED <<ops, wr, locks>>
    /\ req' = Asked([on |-> TRUE, op |-> "Initialize", ok |-> ok])
    /\ IF ~ok
       THEN /\ main' = "exited"
            /\ resp' = Resp("Initialize", "db", 0, 0)
            /\ UNCHANGED <<entries, rankIndex, data, swapVars, db, cache, pendingUpdates,
                           sinceLastRebuild, rebuildTimer, callbacks, stats,
                           staleFor, burst, forced, watch, spaced>>
       ELSE /\ main' = "serving"
            /\ resp' = Resp("Initialize", "none", 1, 0)
            /\ \E snap \in RebuildResults(db) :
                  Forced(ForceRebuild([Cur EXCEPT !.cache = db], snap))

\* CreateUser
CreateUser(username, score, ok) ==
    /\ main = "serving"
    /\ UNCHANGED <<ops, wr, locks>>
    /\ req' = Asked([on |-> TRUE, op |-> "CreateUser", score |-> score, ok |-> ok])
    /\ IF OutOfRange(score)
       THEN Rejected("CreateUser", "validation")
       ELSE IF ~ok
       THEN Rejected("CreateUser", "db")
       ELSE /\ \E i \in 1..Len(SvcIDs) :
                  /\ SvcIDs[i] \notin DOMAIN db
                  /\ \A k \in 1..(i - 1) : SvcIDs[k] \in DOMAIN db
                  /\ LET e  == [Username |-> username, Score |-> score]
                         s1 == CacheSet([Cur EXCEPT !.db = MapSet(@, SvcIDs[i], e)],
                                        SvcIDs[i], e)
                     IN  \E snap \in RebuildResults(s1.cache) :
                             LET t == ScheduleRebuild(s1, snap)
                             IN  /\ Notified(t)
                                 /\ resp' = Resp("CreateUser", "none", t.ran, 0)

\* UpdateScore
UpdateScore(userID, newScore, ok) ==
    /\ main = "serving"
    /\ UNCHANGED <<ops, wr, locks>>
    /\ req' = Asked([on |-> TRUE, op |-> "UpdateScore", id |-> userID,
                      score |-> newScore, ok |-> ok])
    /\ IF OutOfRange(newScore)
       THEN Rejected("UpdateScore", "validation")
       ELSE IF ~ok \/ userID \notin DOMAIN db
       THEN Rejected("UpdateScore", "db")
       ELSE LET user == db[userID]
                s1   == CacheSet([Cur EXCEPT !.db[userID].Score = newScore], userID,
                                 [Username |-> user.Username, Score |-> newScore])
            IN  \E snap \in RebuildResults(s1.cache) :
                    LET t == ScheduleRebuild(s1, snap)
                    IN  /\ Notified(t)
                        /\ resp' = Resp("UpdateScore", "none", t.ran,
                                         GetRank(t.rankIndex, userID))

\* a mutant: the loop caches the new score without looking at UpdateOne's error
BulkApplyUnchecked(s, outcome) ==
    [s EXCEPT
        !.db = [id \in DOMAIN @ |->
                   IF id \in DOMAIN outcome /\ outcome[id] # 0
                   THEN [@[id] EXCEPT !.Score = outcome[id]] ELSE @[id]],
        !.cache = [id \in DOMAIN @ \cup DOMAIN outcome |->
                      IF id \in DOMAIN outcome
                      THEN [Username |-> CacheGet(s.cache, id).Username,
                            Score |-> IF outcome[id] # 0 THEN outcome[id] ELSE MaxScore]
                      ELSE @[id]]]

\* the per-item loop of the bulk updates: outcome[id] is the score written
\* for id, or 0 when the store's UpdateOne failed for it
BulkApply(s, outcome) ==
    [s EXCEPT
        !.db = [id \in DOMAIN @ |->
                   IF id \in DOMAIN outcome /\ outcome[id] # 0
                   THEN [@[id] EXCEPT !.Score = outcome[id]] ELSE @[id]],
        !.cache = [id \in DOMAIN @ \cup {x \in DOMAIN outcome : outcome[x] # 0} |->
                      IF id \in DOMAIN outcome /\ outcome[id] # 0
                      THEN [Username |-> CacheGet(s.cache, id).Username,
                            Score |-> outcome[id]]
                      ELSE @[id]]]

\* BulkUpdateRandom: count IDs of the cache, a random score each
BulkUpdateRandom(count) ==
    /\ main = "serving"
    /\ UNCHANGED <<ops, wr, locks>>
    /\ \E picked \in SUBSET DOMAIN cache :
          /\ Cardinality(picked) = Min(count, Cardinality(DOMAIN cache))
          /\ \E outcome \in [picked -> ValidScores \cup {0}] :
                LET s1 == BulkApply(Cur, outcome)
                IN  \E snap \in RebuildResults(s1.cache) :
                        LET t == ForceRebuild(s1, snap)
                        IN  /\ Forced(t)
                            /\ resp' = Resp("BulkUpdateRandom", "none", t.ran,
                                     Cardinality({id \in picked : outcome[id] # 0}))
                            /\ req' = Asked([on |-> TRUE, op |-> "BulkUpdateRandom",
                                     count |-> count, picked |-> picked,
                                     failed |-> {id \in picked : outcome[id] = 0}])
    /\ UNCHANGED main

\* BulkUpdateToValue: count IDs of the cache, all to targetScore
BulkUpdateToValue(count, targetScore) ==
    /\ main = "serving"
    /\ UNCHANGED <<ops, wr, locks>>
    /\ IF OutOfRange(targetScore)
       THEN /\ Rejected("BulkUpdateToValue", "validation")
            /\ req' = Asked([on |-> TRUE, op |-> "BulkUpdateToValue", count |-> count,
                              score |-> targetScore, picked |-> {}, failed |-> {}])
       ELSE /\ \E picked \in SUBSET DOMAIN cache :
                  /\ Cardinality(picked) = Min(count, Cardinality(DOMAIN cache))
                  /\ \E outcome \in [picked -> {targetScore, 0}] :
                        LET s1 == BulkApply(Cur, outcome)
                        IN  \E snap \in RebuildResults(s1.cache) :
                                LET t == ForceRebuild(s1, snap)
                                IN  /\ Forced(t)
                                    /\ resp' = Resp("BulkUpdateToValue", "none", t.ran,
                                             Cardinality({id \in picked : outcome[id] # 0}))
                                    /\ req' = Asked([on |-> TRUE,
                                             op |-> "BulkUpdateToValue", count |-> count,
                                             score |-> targetScore, picked |-> picked,
                                             failed |-> {id \in picked : outcome[id] = 0}])
            /\ UNCHANGED main

\* the runtime starts the callback of the armed timer when its time is up
TimerFire ==
    /\ rebuildTimer.state = "armed"
    /\ rebuildTimer.left = 0
    /\ rebuildTimer' = [state |-> "fired", left |-> 0]
    /\ callbacks' = callbacks + 1
    /\ resp' = NoResp
    /\ UNCHANGED <<entries, rankIndex, data, swapVars, callVars, main, db, cache,
                   pendingUpdates, sinceLastRebuild, stats, staleFor, burst, forced,
                   watch>>

\* the timer callback: rebuildMu.Lock(); executeRebuild()
TimerCallback ==
    /\ callbacks > 0
    /\ callbacks' = callbacks - 1
    /\ \E snap \in RebuildResults(cache) :
          LET t == ExecuteRebuild(Cur, snap)
          IN  /\ Commit(t)
              /\ resp' = Resp("timerCallback", "none", t.ran, 0)
    /\ burst' = IF burst.open THEN [burst EXCEPT !.rebuilds = Min(@ + 1, 2)] ELSE burst
    /\ spaced' = SpacedOnRebuild
    /\ UNCHANGED <<swapVars, req, ops, wr, locks, main, forced, watch>>

\* the clock moves on by Tick; a timer whose time is up fires, and its
\* callback runs, before the clock moves again
ClockTick ==
    /\ main = "serving"
    /\ callbacks = 0
    /\ ~(rebuildTimer.state = "armed" /\ rebuildTimer.left = 0)
    /\ sinceLastRebuild' = Min(sinceLastRebuild + Tick, MaxRebuildDelayMS)
    /\ rebuildTimer' = IF rebuildTimer.state = "armed"
                       THEN [rebuildTimer EXCEPT !.left = @ - Tick] ELSE rebuildTimer
    /\ staleFor' = IF staleFor = -1 THEN -1 ELSE Min(staleFor + Tick, StaleCap)
    /\ burst' = IF burst.open
                THEN [burst EXCEPT !.quiet = Min(@ + Tick, RebuildDelayMS)] ELSE burst
    /\ spaced' = IF spaced.on /\ spaced.timed /\ spaced.n > 0
                 THEN [spaced EXCEPT !.last = Min(@ + Tick, SpacedCap)] ELSE spaced
    /\ resp' = NoResp
    /\ UNCHANGED <<entries, rankIndex, data, swapVars, req, ops, wr, locks, main, db,
                   cache,
                   pendingUpdates, callbacks, stats, forced, watch>>

Init ==
    /\ SnapshotInit
    /\ main = "init"
    /\ db \in InitialDBs
    /\ cache = EmptyMap
    /\ SchedulerInit
    /\ data = EmptyMap
    /\ resp = NoResp

Next ==
    \/ \E ok \in BOOLEAN : Initialize(ok)
    \/ /\ stats.TotalUpdates < MaxUpdates
       /\ \E username \in SvcNames, score \in InputScores, ok \in BOOLEAN :
             CreateUser(username, score, ok)
    \/ /\ stats.TotalUpdates < MaxUpdates
       /\ \E i \in 1..Len(SvcIDs), score \in InputScores, ok \in BOOLEAN :
             UpdateScore(SvcIDs[i], score, ok)
    \/ \E count \in 0..MaxCount : BulkUpdateRandom(count)
    \/ \E count \in 0..MaxCount, score \in InputScores : BulkUpdateToValue(count, score)
    \/ TimerFire
    \/ TimerCallback
    \/ ClockTick

Spec == Init /\ [][Next]_vars

\* the calls that are accepted: scores in range, the store answering
AcceptedNext ==
    \/ Initialize(TRUE)
    \/ /\ stats.TotalUpdates < MaxUpdates
       /\ \E username \in SvcNames, score \in ValidScores : CreateUser(username, score, TRUE)
    \/ /\ stats.TotalUpdates < MaxUpdates
       /\ \E i \in 1..Len(SvcIDs), score \in ValidScores :
             /\ SvcIDs[i] \in DOMAIN db
             /\ UpdateScore(SvcIDs[i], score, TRUE)
    \/ \E count \in 0..MaxCount : BulkUpdateRandom(count)
    \/ \E count \in 0..MaxCount, score \in ValidScores : BulkUpdateToValue(count, score)
    \/ TimerFire
    \/ TimerCallback
    \/ ClockTick

\* accepted calls, with a timer runtime and a clock that keep going
FairSpec ==
    /\ Init
    /\ [][AcceptedNext]_vars
    /\ WF_vars(TimerFire)
    /\ WF_vars(TimerCallback)
    /\ WF_vars(ClockTick)

\* the service with its calls recorded
CallsInit ==
    /\ SnapshotInit
    /\ main = "init"
    /\ db \in InitialDBs
    /\ cache = EmptyMap
    /\ pendingUpdates = 0
    /\ sinceLastRebuild = MaxRebuildDelayMS
    /\ rebuildTimer = NoTimer
    /\ callbacks = 0
    /\ stats = [TotalUpdates |-> 0, RebuildsTriggered |-> 0,
                AvgUpdatesPerRebuild |-> [num |-> 0, den |-> 1]]
    /\ staleFor = -1
    /\ burst = NoBurst
    /\ forced = FALSE
    /\ watch = FALSE
    /\ req = [on |-> TRUE, op |-> "none"]
    /\ ops = <<>>
    /\ wr = WrIdle
    /\ locks = LocksFree
    /\ spaced = NoSpaced
    /\ data = EmptyMap
    /\ resp = NoResp

\* every handler with every input, while the clock stands still
CallsNext ==
    \/ \E ok \in BOOLEAN : Initialize(ok)
    \/ /\ stats.TotalUpdates < MaxUpdates
       /\ \E username \in SvcNames, score \in InputScores, ok \in BOOLEAN :
             CreateUser(username, score, ok)
    \/ /\ stats.TotalUpdates < MaxUpdates
       /\ \E i \in 1..Len(SvcIDs), score \in InputScores, ok \in BOOLEAN :
             UpdateScore(SvcIDs[i], score, ok)
    \/ \E count \in 0..MaxBulk : BulkUpdateRandom(count)
    \/ \E count \in 0..MaxBulk, score \in InputScores : BulkUpdateToValue(count, score)

SpecCalls == CallsInit /\ [][CallsNext]_vars

\* a stream of score updates on one user, nothing else, with the staleness
\* and the bursts recorded
TrickleInit ==
    /\ SnapshotInit
    /\ main = "init"
    /\ db = [id \in {"u1"} |-> [Username |-> <<97>>, Score |-> MinScore]]
    /\ cache = EmptyMap
    /\ pendingUpdates = 0
    /\ sinceLastRebuild = MaxRebuildDelayMS
    /\ rebuildTimer = NoTimer
    /\ callbacks = 0
    /\ stats = [TotalUpdates |-> 0, RebuildsTriggered |-> 0,
                AvgUpdatesPerRebuild |-> [num |-> 0, den |-> 1]]
    /\ staleFor = -1
    /\ burst = NoBurst
    /\ forced = FALSE
    /\ watch = TRUE
    /\ req = NoReq
    /\ ops = <<>>
    /\ wr = WrIdle
    /\ locks = LocksFree
    /\ spaced = NoSpaced
    /\ data = EmptyMap
    /\ resp = NoResp

TrickleNext ==
    \/ Initialize(TRUE)
    \/ /\ stats.TotalUpdates < MaxTrickle
       /\ \E score \in ValidScores : UpdateScore("u1", score, TRUE)
    \/ TimerFire
    \/ TimerCallback
    \/ ClockTick

SpecTrickle == TrickleInit /\ [][TrickleNext]_vars

MaxSpaced == 3

\* score updates on one user, each more than MaxRebuildDelayMS after the one
\* before, with the writes and the time between them recorded
SpacedInit ==
    /\ SnapshotInit
    /\ main = "init"
    /\ db = [id \in {"u1"} |-> [Username |-> <<97>>, Score |-> MinScore]]
    /\ cache = EmptyMap
    /\ pendingUpdates = 0
    /\ sinceLastRebuild = MaxRebuildDelayMS
    /\ rebuildTimer = NoTimer
    /\ callbacks = 0
    /\ stats = [TotalUpdates |-> 0, RebuildsTriggered |-> 0,
                AvgUpdatesPerRebuild |-> [num |-> 0, den |-> 1]]
    /\ staleFor = -1
    /\ burst = NoBurst
    /\ forced = FALSE
    /\ watch = FALSE
    /\ req = NoReq
    /\ ops = <<>>
    /\ wr = WrIdle
    /\ locks = LocksFree
    /\ spaced = [on |-> TRUE, timed |-> TRUE, n |-> 0, last |-> 0, total |-> 0,
                 pend |-> 0]
    /\ data = EmptyMap
    /\ resp = NoResp

SpacedNext ==
    \/ Initialize(TRUE)
    \/ /\ spaced.n < MaxSpaced
       /\ spaced.n > 0 => spaced.last > MaxRebuildDelayMS
       /\ \E score \in ValidScores : UpdateScore("u1", score, TRUE)
    \/ TimerFire
    \/ TimerCallback
    \/ ClockTick

SpecSpaced == SpacedInit /\ [][SpacedNext]_vars

\* score updates on one user at any moment, with the writes and the time
\* between them recorded
TimedNext ==
    \/ Initialize(TRUE)
    \/ /\ spaced.n < MaxSpaced
       /\ \E score \in ValidScores : UpdateScore("u1", score, TRUE)
    \/ TimerFire
    \/ TimerCallback
    \/ ClockTick

SpecTimed == SpacedInit /\ [][TimedNext]_vars

\* score updates on one user and bulk updates at any moment, with the writes
\* counted and not timed
CountersInit ==
    /\ SnapshotInit
    /\ main = "init"
    /\ db = [id \in {"u1"} |-> [Username |-> <<97>>, Score |-> MinScore]]
    /\ cache = EmptyMap
    /\ pendingUpdates = 0
    /\ sinceLastRebuild = MaxRebuildDelayMS
    /\ rebuildTimer = NoTimer
    /\ callbacks = 0
    /\ stats = [TotalUpdates |-> 0, RebuildsTriggered |-> 0,
                AvgUpdatesPerRebuild |-> [num |-> 0, den |-> 1]]
    /\ staleFor = -1
    /\ burst = NoBurst
    /\ forced = FALSE
    /\ watch = FALSE
    /\ req = NoReq
    /\ ops = <<>>
    /\ wr = WrIdle
    /\ locks = LocksFree
    /\ spaced = [on |-> TRUE, timed |-> FALSE, n |-> 0, last |-> 0, total |-> 0,
                 pend |-> 0]
    /\ data = EmptyMap
    /\ resp = NoResp

CountersNext ==
    \/ Initialize(TRUE)
    \/ /\ spaced.n < MaxSpaced
       /\ \E score \in ValidScores : UpdateScore("u1", score, TRUE)
    \/ \E count \in 0..MaxCount : BulkUpdateRandom(count)
    \/ TimerFire
    \/ TimerCallback
    \/ ClockTick

SpecCounters == CountersInit /\ [][CountersNext]_vars

(***************************************************************************)
(* Claims about the engine, checked under SpecEngine                       *)
(***************************************************************************)
Positions == 1..Len(entries)

\* C1: after Rebuild on any mapping the ranks are the standard competition
\* ranking: equal scores share a rank, and every entry's rank is 1 plus the
\* number of entries with a strictly higher score, both in the published
\* entries and through GetRank for every ID of the mapping.
C1_CompetitionRanking ==
    /\ \A i, j \in Positions :
          entries[i].Score = entries[j].Score => entries[i].Rank = entries[j].Rank
    /\ \A i \in Positions :
          entries[i].Rank =
              1 + Cardinality({j \in Positions : entries[j].Score > entries[i].Score})
    /\ \A id \in DOMAIN data :
          GetRank(rankIndex, id) =
              1 + Cardinality({o \in DOMAIN data : data[o].Score > data[id].Score})

\* the spec's scenario: scores {5000, 5000, 4998} rebuilt into ranks [1, 1, 3]
C1_Witness ==
    /\ resp.op = "Rebuild"
    /\ Len(entries) = 3
    /\ [i \in 1..3 |-> entries[i].Score] = <<5000, 5000, 4998>>
    /\ [i \in 1..3 |-> entries[i].Rank] = <<1, 1, 3>>

\* C8: in every published snapshot rankIndex and entries are in bijection:
\* the same set of IDs, each ID once in entries, and rankIndex[id] equal to
\* the Rank field of that entry.
C8_IndexBijection ==
    /\ DOMAIN rankIndex = {entries[i].UserID : i \in Positions}
    /\ \A i, j \in Positions : i # j => entries[i].UserID # entries[j].UserID
    /\ \A i \in Positions : rankIndex[entries[i].UserID] = entries[i].Rank

\* a rebuilt snapshot of three entries with a tie and a skipped rank
C8_Witness ==
    /\ resp.op = "Rebuild"
    /\ Len(entries) = 3
    /\ DOMAIN rankIndex = UserIDs
    /\ entries[1].Rank = entries[2].Rank
    /\ rankIndex[entries[3].UserID] = 3

\* C9: Rebuild is idempotent and deterministic: a Rebuild call whose mapping
\* equals the mapping of the previous call publishes the same entries
\* sequence and the same rankIndex as the previous call did.
C9_RebuildDeterministic ==
    [][(resp'.op = "Rebuild" /\ data' = data)
          => (entries' = entries /\ rankIndex' = rankIndex)]_vars

RECURSIVE ConcatPages(_, _, _)
\* pages 1..n of GetLeaderboard at this limit, joined in order
ConcatPages(es, limit, n) ==
    IF n = 0 THEN <<>>
    ELSE ConcatPages(es, limit, n - 1) \o GetLeaderboard(es, n, limit).entries

\* C10: for every snapshot and every limit >= 1, a page holds at most limit
\* entries and reports totalCount = snapshot size, the pages joined in order
\* are exactly the ordered entries, and a page starting at or past the total
\* is empty.
C10_Pagination ==
    \A limit \in 1..(MaxLimit + 2) :
        /\ \A page \in 1..(Len(entries) + 2) :
              LET r == GetLeaderboard(entries, page, limit)
              IN  /\ Len(r.entries) <= limit
                  /\ r.total = Len(entries)
                  /\ (page - 1) * limit >= Len(entries) => r.entries = <<>>
        /\ ConcatPages(entries, limit, Len(entries) + 2) = entries

\* a second page that is served, non-empty, from a three-entry snapshot
C10_Witness ==
    /\ resp.op = "GetLeaderboard"
    /\ resp.page = 2
    /\ Len(entries) = 3
    /\ resp.result.entries = <<entries[3]>>
    /\ resp.result.total = 3

\* C11: GetTop(n) returns exactly the first n entries of the ordered entries
\* when 0 <= n <= Size(), and all Size() entries when n > Size().
C11_GetTopPrefix ==
    \A n \in 0..(Len(entries) + 2) :
        LET r == GetTop(entries, n)
        IN  /\ ~GetTopPanics(entries, n)
            /\ Len(r) = IF n <= Size(entries) THEN n ELSE Size(entries)
            /\ \A i \in 1..Len(r) : r[i] = entries[i]

\* GetTop(4) served from a three-entry snapshot, and clamped to it
C11_Witness ==
    /\ resp.op = "GetTop"
    /\ resp.n = 4
    /\ Len(entries) = 3
    /\ ~resp.panicked
    /\ resp.result = entries

\* C12: GetRank(id) returns 0 exactly when id is not in the published
\* snapshot and a rank >= 1 otherwise; for an ID that was never in a rebuilt
\* mapping it returns 0 in every state, before and after any rebuild.
C12_GetRankZeroIffAbsent ==
    /\ \A id \in UserIDs \cup {"unknown-id"} :
          IF id \in {entries[i].UserID : i \in Positions}
          THEN GetRank(rankIndex, id) >= 1
          ELSE GetRank(rankIndex, id) = 0
    /\ GetRank(rankIndex, "unknown-id") = 0
    /\ resp.op = "GetRank" =>
          (resp.result = 0 <=> resp.id \notin {entries[i].UserID : i \in Positions})

\* GetRank("unknown-id") answered 0 from a rebuilt three-entry snapshot
C12_Witness ==
    /\ resp.op = "GetRank"
    /\ resp.id = "unknown-id"
    /\ resp.result = 0
    /\ Len(entries) = 3
    /\ DOMAIN rankIndex = UserIDs

\* C13: no snapshot read fails: in every snapshot state and for every
\* integer argument (GetTop with any n, n < 0 included; GetLeaderboard with
\* page >= 1 and any limit, limit <= 0 included; GetRank; Size) the call
\* returns without panicking, and returns the empty sequence when the
\* requested range is empty or out of bounds.
C13_ReadsNeverFail ==
    /\ resp.op \in {"GetLeaderboard", "GetTop", "GetRank", "Size"} => ~resp.panicked
    /\ (resp.op = "GetTop" /\ resp.n <= 0) => resp.result = <<>>
    /\ (resp.op = "GetLeaderboard"
           /\ (resp.limit <= 0 \/ (resp.page - 1) * resp.limit >= Len(entries)))
          => resp.result.entries = <<>>

(***************************************************************************)
(* Claims about the rebuild scheduler                                      *)
(***************************************************************************)
\* a followed run of write notifications has ended: a full quiet period has
\* passed since its last notification and no timer is outstanding
BurstOver == burst.open /\ burst.quiet >= RebuildDelayMS /\ ~Outstanding

C4_StalenessCeiling == staleFor <= MaxRebuildDelayMS

\* C5: after ForceRebuild returns, no timer callback runs a rebuild until a
\* new write notification arrives.
C5_ForceRebuildCancelsTimer == [][forced => resp'.op # "timerCallback"]_vars

\* the rebuilds made by the call that has just returned
Ran == IF resp.op = "none" THEN 0 ELSE resp.ran

\* C6: every rebuild, one done by ForceRebuild included, increments
\* Stats.RebuildsTriggered by exactly 1: each step adds to the counter the
\* number of rebuilds it made.
C6_EveryRebuildCounted ==
    [][stats'.RebuildsTriggered = stats.RebuildsTriggered + Ran']_vars

\* the published snapshot is a competition ranking of the current cache
Fresh == RanksCache(entries, rankIndex, cache)

\* C7: under fairness of the timer and the clock, once the write
\* notifications have stopped a rebuild executes, and from then on the
\* published snapshot is the competition ranking of the current cache.
C7_EventuallyFresh == <>[]Fresh

\* the timer's rebuild has just brought the snapshot up to the last write
C7_Witness ==
    /\ resp.op = "timerCallback"
    /\ stats.TotalUpdates = MaxUpdates
    /\ pendingUpdates = 0
    /\ cache # EmptyMap
    /\ Fresh

(***************************************************************************)
(* Claims about the handlers' error paths, checked under SpecCalls         *)
(***************************************************************************)
\* the call that has just returned took a score
TookScore == req.on /\ req.op \in {"CreateUser", "UpdateScore", "BulkUpdateToValue"}

\* C14: CreateUser, UpdateScore and BulkUpdateToValue return a
\* ValidationError exactly when the score is not in 100..5000, both bounds
\* included, and such a call changes none of the store, the cache, the
\* snapshot, the pending count, the stats and the timer.
C14_ScoreValidation ==
    [][TookScore' =>
          /\ (resp'.err = "validation") <=> ~(100 <= req'.score /\ req'.score <= 5000)
          /\ resp'.err = "validation" =>
                UNCHANGED <<db, cache, entries, rankIndex, pendingUpdates, stats,
                            rebuildTimer>>]_vars

\* a score one above the range has just been refused while users are ranked
\* and the debounce timer is armed
C14_Witness ==
    /\ TookScore
    /\ req.op = "UpdateScore"
    /\ req.score = MaxScore + 1
    /\ resp.err = "validation"
    /\ Len(entries) > 0
    /\ rebuildTimer.state = "armed"

\* the store refused the write of the CreateUser or UpdateScore that has
\* just returned
StoreFailed ==
    /\ req.on
    /\ req.op \in {"CreateUser", "UpdateScore"}
    /\ ~OutOfRange(req.score)
    /\ ~req.ok

\* C15: when the store's write fails in CreateUser or UpdateScore the call
\* returns the error and leaves the cache, the snapshot, the pending count,
\* the stats and the timer as they were; every score the cache holds is the
\* one the store holds.
C15_StoreFailureLeavesCache ==
    [][/\ StoreFailed' =>
             /\ resp'.err = "db"
             /\ UNCHANGED <<cache, entries, rankIndex, pendingUpdates, stats,
                            rebuildTimer>>
       /\ \A id \in DOMAIN cache' :
             id \in DOMAIN db' /\ cache'[id].Score = db'[id].Score]_vars

\* the store has just refused an in-range update of a cached user while the
\* debounce timer is armed
C15_Witness ==
    /\ StoreFailed
    /\ req.op = "UpdateScore"
    /\ req.id \in DOMAIN cache
    /\ cache[req.id].Score # req.score
    /\ resp.err = "db"
    /\ rebuildTimer.state = "armed"
    /\ pendingUpdates > 0

\* the bulk update that has just returned got past its validation
BulkRan ==
    /\ req.on
    /\ \/ req.op = "BulkUpdateRandom"
       \/ req.op = "BulkUpdateToValue" /\ ~OutOfRange(req.score)

\* C16: a bulk update goes through all of its min(count, cache size) items
\* and returns no error; an item the store refused keeps its cache entry and
\* is not counted; Updated is the number of items the store accepted, between
\* 0 and min(count, cache size); the call rebuilds exactly once, at its end,
\* from the cache as the successful items left it.
C16_PartialBulkFailure ==
    [][BulkRan' =>
          LET picked == req'.picked
              failed == req'.failed
              most   == Min(req'.count, Cardinality(DOMAIN cache))
          IN  /\ resp'.err = "none"
              /\ Cardinality(picked) = most
              /\ \A id \in failed : cache'[id] = cache[id] /\ db'[id] = db[id]
              /\ \A id \in DOMAIN cache \ picked : cache'[id] = cache[id]
              /\ \A id \in picked \ failed :
                    /\ cache'[id].Score = db'[id].Score
                    /\ req'.op = "BulkUpdateToValue" => cache'[id].Score = req'.score
              /\ resp'.val = Cardinality(picked \ failed)
              /\ 0 <= resp'.val /\ resp'.val <= most
              /\ resp'.ran = 1
              /\ forced'
              /\ RanksCache(entries', rankIndex', cache')]_vars

\* a bulk update of two users has just returned with one item refused by the
\* store and the other one written
C16_Witness ==
    /\ BulkRan
    /\ Cardinality(req.picked) = 2
    /\ Cardinality(req.failed) = 1
    /\ resp.val = 1
    /\ \E id \in req.failed : cache[id].Score # MaxScore
    /\ \E id \in req.picked \ req.failed : cache[id].Score = MaxScore

(***************************************************************************)
(* The entry cache on its own (backend/cache/cache.go): SpecCache          *)
(***************************************************************************)
MaxOps == 4

CacheEntries == [Username : SvcNames, Score : ValidScores]

CacheIDs == {"u1", "u2"}

\* a mutant: Delete leaves the map as it is
CacheDeleteNothing(c, id) == c

\* UserCache.Delete: delete(c.data, id)
CacheDelete(c, id) == [x \in DOMAIN c \ {id} |-> c[x]]

\* UserCache.Size: len(c.data)
CacheSize(c) == Cardinality(DOMAIN c)

\* UserCache.Clear: c.data = make(map[string]Entry)
CacheClear == EmptyMap

\* what a call on the cache gave back
CacheResp(op, id, e, found, val) ==
    [op |-> op, err |-> "none", id |-> id, e |-> e, found |-> found, val |-> val]

CacheIdle == UNCHANGED <<entries, rankIndex, data, swapVars, svcVars, req, wr, spaced, locks>>

CallCacheSet(id, e) ==
    /\ Len(ops) < MaxOps
    /\ cache' = CacheSet(Cur, id, e).cache
    /\ ops' = Append(ops, [op |-> "Set", id |-> id, e |-> e])
    /\ resp' = CacheResp("Set", id, e, TRUE, 0)
    /\ UNCHANGED <<entries, rankIndex, data, swapVars, main, db, pendingUpdates,
                   sinceLastRebuild, rebuildTimer, callbacks, stats, staleFor, burst,
                   forced, watch, req, wr, spaced, locks>>

CallCacheGet(id) ==
    /\ resp' = CacheResp("Get", id, CacheGet(cache, id), id \in DOMAIN cache, 0)
    /\ UNCHANGED ops
    /\ CacheIdle

CallCacheDelete(id) ==
    /\ Len(ops) < MaxOps
    /\ cache' = CacheDelete(cache, id)
    /\ ops' = Append(ops, [op |-> "Delete", id |-> id])
    /\ resp' = CacheResp("Delete", id, CacheGet(cache, id), id \in DOMAIN cache, 0)
    /\ UNCHANGED <<entries, rankIndex, data, swapVars, main, db, pendingUpdates,
                   sinceLastRebuild, rebuildTimer, callbacks, stats, staleFor, burst,
                   forced, watch, req, wr, spaced, locks>>

CallCacheSize ==
    /\ resp' = CacheResp("Size", "", CacheGet(cache, ""), FALSE, CacheSize(cache))
    /\ UNCHANGED ops
    /\ CacheIdle

CallCacheClear ==
    /\ Len(ops) < MaxOps
    /\ cache' = CacheClear
    /\ ops' = Append(ops, [op |-> "Clear"])
    /\ resp' = CacheResp("Clear", "", CacheGet(cache, ""), FALSE, 0)
    /\ UNCHANGED <<entries, rankIndex, data, swapVars, main, db, pendingUpdates,
                   sinceLastRebuild, rebuildTimer, callbacks, stats, staleFor, burst,
                   forced, watch, req, wr, spaced, locks>>

CacheNext ==
    \/ \E id \in CacheIDs, e \in CacheEntries : CallCacheSet(id, e)
    \/ \E id \in CacheIDs : CallCacheGet(id)
    \/ \E id \in CacheIDs : CallCacheDelete(id)
    \/ CallCacheSize
    \/ CallCacheClear

SpecCache == EngineInit /\ [][CacheNext]_vars

\* the position in the log of the latest Set(id, .) that no Delete(id) and no
\* Clear has followed, 0 when there is none
LastSet(log, id) ==
    LET sets == {i \in 1..Len(log) :
                    /\ log[i].op = "Set"
                    /\ log[i].id = id
                    /\ \A j \in (i + 1)..Len(log) :
                          /\ log[j].op # "Clear"
                          /\ ~(log[j].op = "Delete" /\ log[j].id = id)
                    /\ \A j \in (i + 1)..Len(log) :
                          ~(log[j].op = "Set" /\ log[j].id = id)}
    IN  IF sets = {} THEN 0 ELSE CHOOSE i \in sets : TRUE

\* C17: after any sequence of cache calls, Get(id) gives the entry of the
\* latest Set(id, .) that no Delete(id) or Clear has followed, and not-found
\* when there is none; Size() is the number of such IDs; Get and Delete of an
\* ID the cache does not hold return normally and leave the cache as it was.
C17_CacheMapSemantics ==
    [][LET live == {id \in CacheIDs : LastSet(ops', id) # 0}
       IN  /\ DOMAIN cache' = live
           /\ resp'.op = "Get" =>
                 /\ cache' = cache
                 /\ resp'.found = (resp'.id \in live)
                 /\ resp'.e = IF resp'.id \in live
                              THEN ops'[LastSet(ops', resp'.id)].e
                              ELSE [Username |-> <<>>, Score |-> 0]
           /\ resp'.op = "Size" => resp'.val = Cardinality(live) /\ cache' = cache
           /\ (resp'.op \in {"Get", "Delete"} /\ LastSet(ops, resp'.id) = 0) =>
                 /\ resp'.err = "none"
                 /\ cache' = cache
                 /\ CacheSize(cache') = CacheSize(cache)]_vars

\* Get has just missed an ID that was set and then deleted, while the other
\* ID, set twice, is still held
C17_Witness ==
    /\ resp.op = "Get"
    /\ ~resp.found
    /\ \E i, j \in 1..Len(ops) :
          /\ i < j
          /\ ops[i].op = "Set" /\ ops[i].id = resp.id
          /\ ops[j].op = "Delete" /\ ops[j].id = resp.id
    /\ \E i, j \in 1..Len(ops) :
          /\ i < j
          /\ ops[i].op = "Set" /\ ops[j].op = "Set"
          /\ ops[i].id = ops[j].id /\ ops[i].id # resp.id
          /\ ops[i].e # ops[j].e
          /\ cache[ops[i].id] = ops[j].e

(***************************************************************************)
(* UserCache.SearchByPrefix, applied to caches drawn by Init: SpecSearch   *)
(* A string is the sequence of its character codes.                        *)
(***************************************************************************)
MaxSearchLimit == 3

SearchIDs == {"u1", "u2", "u3"}

\* "a", "Ab", "b"
SearchNames == {<<97>>, <<65, 98>>, <<98>>}

\* "", "a", "A", "aB"
SearchPrefixes == {<<>>, <<97>>, <<65>>, <<97, 66>>}

SearchCaches ==
    UNION {[S -> [Username : SearchNames, Score : ValidScores]] : S \in SUBSET SearchIDs}

\* a mutant: the case of the letters is kept
ToLowerKeepsCase(str) == str

\* strings.ToLower on ASCII
ToLower(str) == [i \in 1..Len(str) |-> IF str[i] \in 65..90 THEN str[i] + 32 ELSE str[i]]

\* strings.HasPrefix
HasPrefix(str, prefix) ==
    Len(prefix) <= Len(str) /\ SubSeq(str, 1, Len(prefix)) = prefix

\* the entries the loop over c.data appends to results, by ID
SearchMatches(c, prefix) ==
    {id \in DOMAIN c : HasPrefix(ToLower(c[id].Username), ToLower(prefix))}

\* results after sort.Slice with less = (Score >): the loop follows the map's
\* iteration order and the sort is not stable, so any order of the matches in
\* which no entry comes before one of a greater score
SearchSorted(c, prefix) ==
    LET ids == SearchMatches(c, prefix)
        n   == Cardinality(ids)
    IN  {[i \in 1..n |-> [UserID |-> o[i], Username |-> c[o[i]].Username,
                          Score |-> c[o[i]].Score]] :
            o \in {f \in [1..n -> ids] :
                      /\ \A i, j \in 1..n : i # j => f[i] # f[j]
                      /\ \A i, j \in 1..n : i < j => ~(c[f[j]].Score > c[f[i]].Score)}}

\* results[:limit] panics for a negative limit
SearchPanics(c, prefix, limit) ==
    Cardinality(SearchMatches(c, prefix)) > limit /\ limit < 0

\* SearchByPrefix: every slice the call can return
SearchByPrefix(c, prefix, limit) ==
    {IF Len(s) > limit THEN SubSeq(s, 1, limit) ELSE s : s \in SearchSorted(c, prefix)}

CallSearchByPrefix(prefix, limit) ==
    /\ IF SearchPanics(cache, prefix, limit)
       THEN resp' = [op |-> "SearchByPrefix", prefix |-> prefix, limit |-> limit,
                     panicked |-> TRUE, val |-> <<>>]
       ELSE \E res \in SearchByPrefix(cache, prefix, limit) :
               resp' = [op |-> "SearchByPrefix", prefix |-> prefix, limit |-> limit,
                        panicked |-> FALSE, val |-> res]
    /\ UNCHANGED <<entries, rankIndex, data, swapVars, svcVars, callVars>>

SearchInit ==
    /\ SnapshotInit
    /\ main = "init"
    /\ db = EmptyMap
    /\ cache \in SearchCaches
    /\ SchedulerInit
    /\ data = EmptyMap
    /\ resp = NoResp

SearchNext ==
    \E prefix \in SearchPrefixes, limit \in -1..MaxSearchLimit :
        CallSearchByPrefix(prefix, limit)

SpecSearch == SearchInit /\ [][SearchNext]_vars

\* two characters are the same letter, whatever their case
SameLetter(a, b) ==
    \/ a = b
    \/ a \in 65..90 /\ b = a + 32
    \/ b \in 65..90 /\ a = b + 32

\* the cached users whose username starts with prefix ignoring case
StartsWith(prefix) ==
    {id \in DOMAIN cache :
        /\ Len(prefix) <= Len(cache[id].Username)
        /\ \A i \in 1..Len(prefix) : SameLetter(cache[id].Username[i], prefix[i])}

\* C18: for limit >= 0, SearchByPrefix returns min(limit, M) results, M the
\* number of cached usernames that start with the prefix ignoring case; each
\* result is such an entry, none twice; scores never increase along the
\* results; and no matching entry left out has a score above a returned one.
C18_SearchByPrefix ==
    (resp.op = "SearchByPrefix" /\ resp.limit >= 0) =>
        LET M   == StartsWith(resp.prefix)
            res == resp.val
            out == {res[i].UserID : i \in 1..Len(res)}
        IN  /\ ~resp.panicked
            /\ Len(res) = Min(resp.limit, Cardinality(M))
            /\ Cardinality(out) = Len(res)
            /\ \A i \in 1..Len(res) :
                  /\ res[i].UserID \in M
                  /\ res[i].Username = cache[res[i].UserID].Username
                  /\ res[i].Score = cache[res[i].UserID].Score
            /\ \A i, j \in 1..Len(res) : i < j => res[i].Score >= res[j].Score
            /\ \A id \in M \ out : \A i \in 1..Len(res) : cache[id].Score <= res[i].Score

\* a search whose prefix differs in case from the usernames has returned two
\* of three matches and left out one of the lowest score
C18_Witness ==
    /\ resp.op = "SearchByPrefix"
    /\ resp.prefix = <<65>>
    /\ resp.limit = 2
    /\ Len(resp.val) = 2
    /\ Cardinality(StartsWith(resp.prefix)) = 3
    /\ \E i \in 1..2 : resp.val[i].Username = <<97>>
    /\ resp.val[1].Score > resp.val[2].Score

(***************************************************************************)
(* Claims about spaced writes, checked under SpecSpaced                    *)
(***************************************************************************)
\* every write so far has had its rebuild: no timer is armed or running
SpacedSettled == spaced.on /\ spaced.n > 0 /\ ~Outstanding

\* C19 as stated: for write notifications each more than MaxRebuildDelayMS
\* after the one before, the rebuilds triggered are at least the ceiling of
\* (time from the first write to the last) / MaxRebuildDelayMS.
C19_RebuildsCoverElapsed ==
    SpacedSettled => stats.RebuildsTriggered * MaxRebuildDelayMS >= spaced.total

\* C19, amended: for write notifications each more than MaxRebuildDelayMS
\* after the one before, every write triggers a rebuild of its own: once no
\* timer is outstanding the rebuilds triggered are at least the writes, and
\* at any moment at least the writes but one.
C19_OneRebuildPerSpacedWrite ==
    /\ SpacedSettled => stats.RebuildsTriggered >= spaced.n
    /\ (spaced.on /\ spaced.n > 0) => stats.RebuildsTriggered >= spaced.n - 1

\* three spaced writes, the last one served by its debounce timer, have had
\* three rebuilds
C19_Witness ==
    /\ SpacedSettled
    /\ spaced.n = 3
    /\ spaced.total > 2 * MaxRebuildDelayMS
    /\ stats.RebuildsTriggered = 3
    /\ resp.op = "timerCallback"

(***************************************************************************)
(* Two writers of one user, statement by statement: SpecRace               *)
(* UpdateScore holds no lock from its store write (FindOneAndUpdate) to    *)
(* its cache.Global.Set, and neither does an item of a bulk update from    *)
(* UpdateOne to cache.Global.Set, so the steps of two calls interleave.    *)
(***************************************************************************)
WrKinds == {"UpdateScore", "Bulk"}

\* the other variables a writer's step leaves alone
WrIdleVars == <<entries, rankIndex, data, swapVars, main, pendingUpdates, sinceLastRebuild,
                rebuildTimer, callbacks, stats, staleFor, burst, forced, watch, req, ops,
                spaced, locks>>

\* the writer is between the start of its call and its return
InFlight(w) == wr[w].pc \notin {"idle", "done"}

\* the call starts: the score is in range, the user is picked
WrStart(w, kind, score) ==
    /\ main = "serving"
    /\ wr[w].pc \in {"idle", "done"}
    /\ ~OutOfRange(score)
    /\ "u1" \in DOMAIN cache
    /\ stats.TotalUpdates + Cardinality({v \in Writers : InFlight(v)}) < MaxUpdates
    /\ wr' = [wr EXCEPT ![w] = [pc |-> "store", kind |-> kind, id |-> "u1",
                                score |-> score, over |-> FALSE, overDb |-> FALSE]]
    /\ resp' = NoResp
    /\ UNCHANGED <<db, cache, WrIdleVars>>

\* FindOneAndUpdate / UpdateOne: $set score; overDb records, for the writers
\* whose store write came before, that a later one has replaced their score
WrStore(w) ==
    /\ wr[w].pc = "store"
    /\ db' = [db EXCEPT ![wr[w].id].Score = wr[w].score]
    /\ wr' = [v \in Writers |->
                 IF v = w THEN [wr[v] EXCEPT !.pc = "cache"]
                 ELSE IF wr[v].pc \in {"cache", "rebuild", "done"}
                 THEN [wr[v] EXCEPT !.overDb = TRUE]
                 ELSE wr[v]]
    /\ resp' = NoResp
    /\ UNCHANGED <<cache, WrIdleVars>>

\* a mutant: the writer goes on to its notification without the Set
WrCacheSetSkipped(w) ==
    /\ wr[w].pc = "cache"
    /\ wr' = [wr EXCEPT ![w].pc = "rebuild"]
    /\ resp' = NoResp
    /\ UNCHANGED <<db, cache, WrIdleVars>>

\* cache.Global.Set(id, Entry{Username, Score}); over records, for the
\* writers whose Set came before, that a later Set has replaced their entry
WrCacheSet(w) ==
    /\ wr[w].pc = "cache"
    /\ cache' = CacheSet(Cur, wr[w].id,
                         [Username |-> IF wr[w].kind = "UpdateScore"
                                       THEN db[wr[w].id].Username
                                       ELSE CacheGet(cache, wr[w].id).Username,
                          Score |-> wr[w].score]).cache
    /\ wr' = [v \in Writers |->
                 IF v = w THEN [wr[v] EXCEPT !.pc = "rebuild"]
                 ELSE IF wr[v].pc \in {"rebuild", "done"} THEN [wr[v] EXCEPT !.over = TRUE]
                 ELSE wr[v]]
    /\ resp' = NoResp
    /\ UNCHANGED <<db, WrIdleVars>>

\* scheduleRebuild() of UpdateScore, ForceRebuild() of the bulk update, and
\* the return
WrRebuild(w) ==
    /\ wr[w].pc = "rebuild"
    /\ wr' = [wr EXCEPT ![w].pc = "done"]
    /\ UNCHANGED <<req, ops, main, locks>>
    /\ \E snap \in RebuildResults(cache) :
          IF wr[w].kind = "UpdateScore"
          THEN LET t == ScheduleRebuild(Cur, snap)
               IN  /\ Notified(t)
                   /\ resp' = Resp("UpdateScore", "none", t.ran,
                                   GetRank(t.rankIndex, wr[w].id))
          ELSE LET t == ForceRebuild(Cur, snap)
               IN  /\ Forced(t)
                   /\ resp' = Resp("BulkUpdateToValue", "none", t.ran, 1)

RaceInit ==
    /\ SnapshotInit
    /\ main = "init"
    /\ db = [id \in {"u1"} |-> [Username |-> <<97>>, Score |-> MinScore]]
    /\ cache = EmptyMap
    /\ SchedulerInit
    /\ data = EmptyMap
    /\ resp = NoResp

RaceNext ==
    \/ Initialize(TRUE)
    \/ \E w \in Writers, kind \in WrKinds, score \in ValidScores : WrStart(w, kind, score)
    \/ \E w \in Writers : WrStore(w)
    \/ \E w \in Writers : WrCacheSet(w)
    \/ \E w \in Writers : WrRebuild(w)
    \/ TimerFire
    \/ TimerCallback
    \/ ClockTick

SpecRace == RaceInit /\ [][RaceNext]_vars

\* C20: once every concurrent write of an ID has returned, the score the
\* cache holds for it is the score the store holds.
C20_CacheStoreConverge ==
    (\A w \in Writers : ~InFlight(w)) =>
        \A id \in DOMAIN cache : cache[id].Score = db[id].Score

(***************************************************************************)
(* Claims about the scheduler's steps, checked under Spec and SpecTrickle  *)
(***************************************************************************)
\* C21: when a rebuild has completed, by the timer, by the ceiling check or
\* forced, pendingUpdates is 0 and no debounce timer is armed or running.
C21_IdleAfterRebuild == Ran > 0 => pendingUpdates = 0 /\ ~Outstanding

\* C22: a write notification that arrives before the armed timer's rebuild
\* has executed cancels that timer, so a rebuild made by the timer's callback
\* has had no write notification in the RebuildDelayMS before it.
C22_TimerRebuildAfterQuiet ==
    (resp.op = "timerCallback" /\ spaced.on) => spaced.last >= RebuildDelayMS

\* the step is a write whose notification reached scheduleRebuild
WriteNotified == resp'.op \in {"CreateUser", "UpdateScore"} /\ resp'.err = "none"

\* C23: a call of scheduleRebuild made when the time since lastRebuild has
\* reached MaxRebuildDelayMS rebuilds before it returns, from the cache as it
\* is, and resets pendingUpdates to 0 and lastRebuild to now; any other call
\* rebuilds nothing and leaves one timer armed for RebuildDelayMS later.
C23_CeilingCheckedOnEveryWrite ==
    [][WriteNotified =>
          IF sinceLastRebuild >= 500
          THEN /\ resp'.ran = 1
               /\ pendingUpdates' = 0
               /\ sinceLastRebuild' = 0
               /\ RanksCache(entries', rankIndex', cache')
          ELSE /\ resp'.ran = 0
               /\ entries' = entries /\ rankIndex' = rankIndex
               /\ pendingUpdates' = pendingUpdates + 1
               /\ sinceLastRebuild' = sinceLastRebuild
               /\ rebuildTimer' = [state |-> "armed", left |-> 100]]_vars

\* the second write of a run arrived at the ceiling and rebuilt inside its
\* call, two writes pending
C23_Witness ==
    /\ resp.op = "UpdateScore"
    /\ resp.ran = 1
    /\ spaced.on
    /\ spaced.n = 2
    /\ spaced.last = 0
    /\ spaced.total < RebuildDelayMS
    /\ stats.RebuildsTriggered = 1
    /\ pendingUpdates = 0
    /\ sinceLastRebuild = 0

(***************************************************************************)
(* The scheduler's critical sections, statement by statement: SpecSerial   *)
(* scheduleRebuild, the timer's callback and ForceRebuild each take        *)
(* rebuildMu, do their bookkeeping, scan the cache (GetAllWithIDs), hand   *)
(* the copy to engine.Global.Rebuild and release rebuildMu on return.      *)
(***************************************************************************)
Runners == {"w1", "f1", "t1"}

\* what each runner executes
RunnerKind == [w1 |-> "scheduleRebuild", f1 |-> "ForceRebuild", t1 |-> "timerCallback"]

\* the variables no step of a runner changes
SrRest == <<swapVars, main, db, cache, staleFor, burst, forced, watch, req, ops, spaced>>

\* a mutant: rebuildMu.Lock() returns at once
SrCanLockAlways(l) == TRUE

\* rebuildMu.Lock() returns when nobody holds rebuildMu
SrCanLock(l) == l.rebuildMu = "free"

\* the first statements of executeRebuild: counters and lastRebuild
SrBook(s) ==
    LET n == s.stats.RebuildsTriggered + 1
    IN  [s EXCEPT !.pendingUpdates = 0,
                  !.sinceLastRebuild = 0,
                  !.stats.RebuildsTriggered = n,
                  !.stats.AvgUpdatesPerRebuild =
                      IF n > 0 THEN [num |-> s.stats.TotalUpdates, den |-> n] ELSE @]

\* a write handler reaches scheduleRebuild, or a bulk handler ForceRebuild
SrCall(p) ==
    /\ main = "serving"
    /\ RunnerKind[p] # "timerCallback"
    /\ wr[p].pc = "idle"
    /\ RunnerKind[p] = "scheduleRebuild" => stats.TotalUpdates < MaxUpdates
    /\ wr' = [wr EXCEPT ![p] = [pc |-> "lock"]]
    /\ resp' = NoResp
    /\ UNCHANGED <<entries, rankIndex, data, pendingUpdates, sinceLastRebuild,
                   rebuildTimer, callbacks, stats, locks, SrRest>>

\* the goroutine of a fired timer starts running the callback
SrCallback(p) ==
    /\ RunnerKind[p] = "timerCallback"
    /\ wr[p].pc = "idle"
    /\ callbacks > 0
    /\ callbacks' = callbacks - 1
    /\ wr' = [wr EXCEPT ![p] = [pc |-> "lock"]]
    /\ resp' = NoResp
    /\ UNCHANGED <<entries, rankIndex, data, pendingUpdates, sinceLastRebuild,
                   rebuildTimer, stats, locks, SrRest>>

\* rebuildMu.Lock() and the statements up to the cache scan
SrLock(p) ==
    /\ wr[p].pc = "lock"
    /\ SrCanLock(locks)
    /\ locks' = [locks EXCEPT !.rebuildMu = p]
    /\ resp' = NoResp
    /\ LET s1 == [Cur EXCEPT !.pendingUpdates = @ + 1, !.stats.TotalUpdates = @ + 1]
           t  == CASE RunnerKind[p] = "timerCallback" -> SrBook(Cur)
                   [] RunnerKind[p] = "ForceRebuild" ->
                          [Cur EXCEPT !.rebuildTimer = TimerStop(@),
                                      !.pendingUpdates = 0,
                                      !.sinceLastRebuild = 0]
                   [] RunnerKind[p] = "scheduleRebuild" ->
                          IF s1.sinceLastRebuild >= MaxRebuildDelayMS /\ s1.pendingUpdates > 0
                          THEN SrBook(s1)
                          ELSE [s1 EXCEPT !.rebuildTimer = TimerAfterFunc]
           rebuilds == \/ RunnerKind[p] # "scheduleRebuild"
                       \/ s1.sinceLastRebuild >= MaxRebuildDelayMS /\ s1.pendingUpdates > 0
       IN  /\ pendingUpdates' = t.pendingUpdates
           /\ sinceLastRebuild' = t.sinceLastRebuild
           /\ rebuildTimer' = t.rebuildTimer
           /\ stats' = t.stats
           /\ wr' = [wr EXCEPT ![p] = [pc |-> IF rebuilds THEN "scan" ELSE "unlock"]]
    /\ UNCHANGED <<entries, rankIndex, data, callbacks, SrRest>>

\* cache.Global.GetAllWithIDs()
SrScan(p) ==
    /\ wr[p].pc = "scan"
    /\ wr' = [wr EXCEPT ![p] = [pc |-> "publish", data |-> cache]]
    /\ resp' = NoResp
    /\ UNCHANGED <<entries, rankIndex, data, pendingUpdates, sinceLastRebuild,
                   rebuildTimer, callbacks, stats, locks, SrRest>>

\* engine.Global.Rebuild(copy)
SrPublish(p) ==
    /\ wr[p].pc = "publish"
    /\ \E snap \in RebuildResults(wr[p].data) :
          /\ entries' = snap.entries
          /\ rankIndex' = snap.rankIndex
    /\ data' = wr[p].data
    /\ wr' = [wr EXCEPT ![p] = [pc |-> "unlock"]]
    /\ resp' = NoResp
    /\ UNCHANGED <<pendingUpdates, sinceLastRebuild, rebuildTimer, callbacks, stats,
                   locks, SrRest>>

\* the deferred rebuildMu.Unlock(), and the return
SrUnlock(p) ==
    /\ wr[p].pc = "unlock"
    /\ locks' = [locks EXCEPT !.rebuildMu = "free"]
    /\ wr' = [wr EXCEPT ![p] = [pc |-> "idle"]]
    /\ resp' = NoResp
    /\ UNCHANGED <<entries, rankIndex, data, pendingUpdates, sinceLastRebuild,
                   rebuildTimer, callbacks, stats, SrRest>>

SerialInit ==
    /\ SnapshotInit
    /\ main = "init"
    /\ db = [id \in {"u1"} |-> [Username |-> <<97>>, Score |-> MinScore]]
    /\ cache = EmptyMap
    /\ pendingUpdates = 0
    /\ sinceLastRebuild = MaxRebuildDelayMS
    /\ rebuildTimer = NoTimer
    /\ callbacks = 0
    /\ stats = [TotalUpdates |-> 0, RebuildsTriggered |-> 0,
                AvgUpdatesPerRebuild |-> [num |-> 0, den |-> 1]]
    /\ staleFor = -1
    /\ burst = NoBurst
    /\ forced = FALSE
    /\ watch = FALSE
    /\ req = NoReq
    /\ ops = <<>>
    /\ wr = [p \in Runners |-> [pc |-> "idle"]]
    /\ locks = LocksFree
    /\ spaced = NoSpaced
    /\ data = EmptyMap
    /\ resp = NoResp

SerialNext ==
    \/ Initialize(TRUE)
    \/ \E p \in Runners : SrCall(p)
    \/ \E p \in Runners : SrCallback(p)
    \/ \E p \in Runners : SrLock(p)
    \/ \E p \in Runners : SrScan(p)
    \/ \E p \in Runners : SrPublish(p)
    \/ \E p \in Runners : SrUnlock(p)
    \/ TimerFire
    \/ ClockTick

SpecSerial == SerialInit /\ [][SerialNext]_vars

\* the runners between the start of their cache scan and the end of their
\* snapshot publication
Rebuilding == {p \in Runners : wr[p].pc \in {"scan", "publish"}}

\* C24: at most one rebuild, cache scan plus snapshot publication, is in
\* progress at any time, and none begins while another has not completed.
C24_RebuildsSerialized ==
    /\ Cardinality(Rebuilding) <= 1
    /\ \A p \in Rebuilding : locks.rebuildMu = p

\* the timer's callback is rebuilding while a write notification and a
\* ForceRebuild wait for rebuildMu
C24_Witness ==
    /\ wr["t1"].pc = "publish"
    /\ wr["w1"].pc = "lock"
    /\ wr["f1"].pc = "lock"
    /\ locks.rebuildMu = "t1"

(***************************************************************************)
(* Claims about the order of a write's statements, checked under SpecRace  *)
(***************************************************************************)
\* the UpdateScore calls that have made their cache Set
HaveSet == {w \in Writers : wr[w].pc \in {"rebuild", "done"} /\ wr[w].kind = "UpdateScore"}

\* the snapshot es ranks id with this score
RanksWith(es, id, score) ==
    \E i \in 1..Len(es) : es[i].UserID = id /\ es[i].Score = score

StrLeq(a, b) ==
    \/ a = b
    \/ \E i \in 1..Len(a) :
          /\ \A k \in 1..(i - 1) : k <= Len(b) /\ a[k] = b[k]
          /\ i <= Len(b) /\ a[i] < b[i]
    \/ Len(a) < Len(b) /\ \A k \in 1..Len(a) : a[k] = b[k]

\* C26: in the published snapshot every entry is followed by one of a lower
\* score, or of the same score and a username that is not smaller.
C26_SortedByScoreThenName ==
    \A i \in 1..(Len(entries) - 1) :
        \/ entries[i].Score > entries[i + 1].Score
        \/ /\ entries[i].Score = entries[i + 1].Score
           /\ StrLeq(entries[i].Username, entries[i + 1].Username)

\* three users are published, two of them tied on the score with different
\* usernames, below the third
C26_Witness ==
    /\ Len(entries) = 3
    /\ entries[1].Score > entries[2].Score
    /\ entries[2].Score = entries[3].Score
    /\ entries[2].Username # entries[3].Username
    /\ entries[2].UserID # entries[3].UserID

(***************************************************************************)
(* Claims about the scheduler's counters, checked under SpecCounters       *)
(***************************************************************************)
\* C27: a write notification adds 1 to Stats.TotalUpdates and to
\* pendingUpdates, which a rebuild inside the same call then resets;
\* TotalUpdates is the number of write notifications received so far,
\* pendingUpdates the number received since the latest rebuild and never
\* negative; TotalUpdates and RebuildsTriggered never decrease.
C27_SchedulerCounters ==
    [][/\ WriteNotified =>
             /\ stats'.TotalUpdates = stats.TotalUpdates + 1
             /\ pendingUpdates' = IF resp'.ran > 0 THEN 0 ELSE pendingUpdates + 1
       /\ stats'.TotalUpdates = spaced'.n
       /\ pendingUpdates' = spaced'.pend
       /\ pendingUpdates' >= 0
       /\ stats'.TotalUpdates >= stats.TotalUpdates
       /\ stats'.RebuildsTriggered >= stats.RebuildsTriggered]_vars

\* two writes are pending after a third was taken by a rebuild
C27_Witness ==
    /\ spaced.on
    /\ spaced.n = 3
    /\ pendingUpdates = 2
    /\ stats.TotalUpdates = 3
    /\ stats.RebuildsTriggered = 1
    /\ rebuildTimer.state = "armed"

\* a step in which the scheduler rebuilt: a notification that took the ceiling
\* branch, or the timer's callback
SchedulerRebuilt ==
    \/ WriteNotified /\ resp'.ran > 0
    \/ resp'.op = "timerCallback"

ForcingCallReturned ==
    resp.op \in {"Initialize", "BulkUpdateRandom", "BulkUpdateToValue"}

\* the snapshot lists exactly the IDs of the cache c, each once, each with the
\* score and the username c has for it, in an order and with ranks Rebuild
\* gives
SnapshotOfCache(es, ri, c) ==
    /\ {es[i].UserID : i \in 1..Len(es)} = DOMAIN c
    /\ Len(es) = Cardinality(DOMAIN c)
    /\ \A i \in 1..Len(es) :
          /\ es[i].Score = c[es[i].UserID].Score
          /\ es[i].Username = c[es[i].UserID].Username
    /\ RanksCache(es, ri, c)

\* C29 as stated: whenever Initialize, BulkUpdateRandom or BulkUpdateToValue
\* has returned, with no other writer running, the published snapshot is
\* exactly the ranking of the current cache.
C29_FreshAfterEveryReturn ==
    ForcingCallReturned => SnapshotOfCache(entries, rankIndex, cache)

\* C29, amended: whenever Initialize, BulkUpdateRandom or BulkUpdateToValue has
\* returned without an error, with no other writer running, the published
\* snapshot is exactly the ranking of the current cache: the same set of IDs,
\* and for every ID the score and the username the cache has.
C29_FreshAfterForcedRebuild ==
    (ForcingCallReturned /\ resp.err = "none") =>
        /\ resp.ran = 1
        /\ pendingUpdates = 0
        /\ SnapshotOfCache(entries, rankIndex, cache)

\* a bulk update has just returned after writing to a cache whose earlier
\* single write was still waiting for its timer
C29_Witness ==
    /\ req.on
    /\ req.op = "BulkUpdateRandom"
    /\ resp.op = "BulkUpdateRandom"
    /\ resp.val = 1
    /\ stats.TotalUpdates > stats.RebuildsTriggered
    /\ rebuildTimer.state = "stopped"
    /\ Cardinality(DOMAIN cache) = 2
    /\ \E i \in 1..Len(entries) : entries[i].Score # MinScore

(***************************************************************************)
(* Concurrent Set calls on the cache, statement by statement: SpecSets     *)
(***************************************************************************)
MaxSets == 3

\* the goroutines calling UserCache.Set
Setters == {"s1", "s2", "s3"}

\* what the Set calls leave alone
StRest == <<entries, rankIndex, data, resp, swapVars, main, db, pendingUpdates,
            sinceLastRebuild, rebuildTimer, callbacks, stats, staleFor, burst, forced,
            watch, req, spaced>>

\* the Set calls started so far
SetsStarted == Len(ops) + Cardinality({p \in Setters : wr[p].pc # "idle"})

\* a mutant: c.mu.Lock() never waits
SetCanLockAlways(l) == TRUE

\* c.mu.Lock() returns only when no other goroutine holds c.mu
SetCanLock(l) == l.mu = "free"

\* a goroutine calls Set(id, e)
StCall(p, id, e) ==
    /\ wr[p].pc = "idle"
    /\ SetsStarted < MaxSets
    /\ wr' = [wr EXCEPT ![p] = [pc |-> "lock", id |-> id, e |-> e,
                                seq |-> SetsStarted + 1]]
    /\ UNCHANGED <<cache, ops, locks, StRest>>

\* c.mu.Lock()
StLock(p) ==
    /\ wr[p].pc = "lock"
    /\ SetCanLock(locks)
    /\ locks' = [locks EXCEPT !.mu = p]
    /\ wr' = [wr EXCEPT ![p].pc = "write"]
    /\ UNCHANGED <<cache, ops, StRest>>

\* c.data[id] = entry
StWrite(p) ==
    /\ wr[p].pc = "write"
    /\ cache' = MapSet(cache, wr[p].id, wr[p].e)
    /\ wr' = [wr EXCEPT ![p].pc = "unlock"]
    /\ UNCHANGED <<ops, locks, StRest>>

\* the deferred c.mu.Unlock(): the call completes
StUnlock(p) ==
    /\ wr[p].pc = "unlock"
    /\ locks' = [locks EXCEPT !.mu = "free"]
    /\ ops' = Append(ops, [op |-> "Set", id |-> wr[p].id, e |-> wr[p].e,
                           seq |-> wr[p].seq])
    /\ wr' = [wr EXCEPT ![p] = [pc |-> "idle"]]
    /\ UNCHANGED <<cache, StRest>>

SetsInit ==
    /\ SnapshotInit
    /\ main = "init"
    /\ db = EmptyMap
    /\ cache = EmptyMap
    /\ pendingUpdates = 0
    /\ sinceLastRebuild = MaxRebuildDelayMS
    /\ rebuildTimer = NoTimer
    /\ callbacks = 0
    /\ stats = [TotalUpdates |-> 0, RebuildsTriggered |-> 0,
                AvgUpdatesPerRebuild |-> [num |-> 0, den |-> 1]]
    /\ staleFor = -1
    /\ burst = NoBurst
    /\ forced = FALSE
    /\ watch = FALSE
    /\ req = NoReq
    /\ ops = <<>>
    /\ wr = [p \in Setters |-> [pc |-> "idle"]]
    /\ locks = LocksFree
    /\ spaced = NoSpaced
    /\ data = EmptyMap
    /\ resp = NoResp

SetsNext ==
    \/ \E p \in Setters, id \in CacheIDs, e \in CacheEntries : StCall(p, id, e)
    \/ \E p \in Setters : StLock(p)
    \/ \E p \in Setters : StWrite(p)
    \/ \E p \in Setters : StUnlock(p)

SpecSets == SetsInit /\ [][SetsNext]_vars

\* every Set call that was started has completed
SetsAllCompleted == \A p \in Setters : wr[p].pc = "idle"

\* C30: for any interleaving of concurrent Set calls, once all of them have
\* completed the entry stored for each ID is the entry of the Set on that ID
\* that completed last (and an ID no Set named is absent); and a Set on one ID
\* never changes what is stored for a different ID.
C30_LastSetWins ==
    [][/\ SetsAllCompleted' =>
             \A id \in CacheIDs :
                 IF LastSet(ops', id) = 0
                 THEN id \notin DOMAIN cache'
                 ELSE id \in DOMAIN cache' /\ cache'[id] = ops'[LastSet(ops', id)].e
       /\ \A p \in Setters :
             wr[p].pc = "write" /\ wr'[p].pc = "unlock" =>
                 /\ DOMAIN cache' \ {wr[p].id} = DOMAIN cache \ {wr[p].id}
                 /\ \A x \in DOMAIN cache \ {wr[p].id} : cache'[x] = cache[x]
       /\ cache' # cache => \E p \in Setters : wr[p].pc = "write" /\ wr'[p].pc = "unlock"
      ]_vars

\* three Sets have completed, two of them on u1 with different entries and in
\* the order opposite to the one they were called in, one on u2
C30_Witness ==
    /\ SetsAllCompleted
    /\ Len(ops) = 3
    /\ ops[1].id = "u1" /\ ops[3].id = "u1" /\ ops[2].id = "u2"
    /\ ops[1].e # ops[3].e
    /\ ops[1].seq > ops[3].seq
    /\ cache["u1"] = ops[3].e
    /\ cache["u2"] = ops[2].e

(***************************************************************************)
(* GetAllWithIDs against concurrent Set and Delete calls, statement by     *)
(* statement: SpecScan                                                     *)
(***************************************************************************)
MaxScanWrites == 2

\* the goroutine that calls Set and Delete beside the scan
ScanWriters == {"s1"}

\* the caches the scan starts on: none or both of the users, any scores
ScanCaches == {EmptyMap} \cup [CacheIDs -> CacheEntries]

\* the goroutine that rebuilds: engine.Global.Rebuild(cache.Global.GetAllWithIDs())
Scanner == "g1"

\* nobody has called anything
ScanIdle == [p \in Setters \cup {Scanner} |->
                [pc |-> "idle"]]

\* a mutant: c.mu.RLock() never waits for the writer
ScCanRLockAlways(l) == TRUE

\* c.mu.RLock() returns only when no writer holds c.mu
ScCanRLock(l) == l.mu = "free"

\* a goroutine calls Delete(id)
DlCall(p, id) ==
    /\ wr[p].pc = "idle"
    /\ SetsStarted < MaxSets
    /\ wr' = [wr EXCEPT ![p] = [pc |-> "dlock", id |-> id, seq |-> SetsStarted + 1]]
    /\ UNCHANGED <<cache, ops, locks, StRest>>

\* Delete: c.mu.Lock()
DlLock(p) ==
    /\ wr[p].pc = "dlock"
    /\ SetCanLock(locks)
    /\ locks' = [locks EXCEPT !.mu = p]
    /\ wr' = [wr EXCEPT ![p].pc = "delete"]
    /\ UNCHANGED <<cache, ops, StRest>>

\* Delete: delete(c.data, id)
DlWrite(p) ==
    /\ wr[p].pc = "delete"
    /\ cache' = CacheDelete(cache, wr[p].id)
    /\ wr' = [wr EXCEPT ![p].pc = "dunlock"]
    /\ UNCHANGED <<ops, locks, StRest>>

\* Delete: the deferred c.mu.Unlock()
DlUnlock(p) ==
    /\ wr[p].pc = "dunlock"
    /\ locks' = [locks EXCEPT !.mu = "free"]
    /\ ops' = Append(ops, [op |-> "Delete", id |-> wr[p].id, seq |-> wr[p].seq])
    /\ wr' = [wr EXCEPT ![p] = [pc |-> "idle"]]
    /\ UNCHANGED <<cache, StRest>>

\* the rebuilding goroutine calls GetAllWithIDs
ScCall ==
    /\ wr[Scanner].pc \in {"idle", "published"}
    /\ wr' = [wr EXCEPT ![Scanner] = [pc |-> "rlock"]]
    /\ UNCHANGED <<cache, ops, locks, StRest>>

\* c.mu.RLock(); result := make(map[string]Entry, len(c.data)); the range
\* loop is about to start over the keys the map has now.  cut remembers the
\* cache as it is at this moment.
ScRLock ==
    /\ wr[Scanner].pc = "rlock"
    /\ ScCanRLock(locks)
    /\ locks' = [locks EXCEPT !.mu = IF @ = "free" THEN Scanner ELSE @]
    /\ wr' = [wr EXCEPT ![Scanner] =
                 [pc |-> "copy", result |-> EmptyMap,
                  todo |-> DOMAIN cache, cut |-> cache, touched |-> FALSE]]
    /\ UNCHANGED <<cache, ops, StRest>>

\* one round of the range loop: result[k] = v, for a key the loop has not
\* visited and the map still holds
ScCopy ==
    /\ wr[Scanner].pc = "copy"
    /\ \E k \in wr[Scanner].todo :
          wr' = [wr EXCEPT ![Scanner].todo = @ \ {k},
                           ![Scanner].result =
                               IF k \in DOMAIN cache THEN MapSet(@, k, cache[k]) ELSE @]
    /\ UNCHANGED <<cache, ops, locks, StRest>>

\* the loop is over: the deferred c.mu.RUnlock(), and GetAllWithIDs returns
ScReturn ==
    /\ wr[Scanner].pc = "copy"
    /\ wr[Scanner].todo = {}
    /\ locks' = [locks EXCEPT !.mu = IF @ = Scanner THEN "free" ELSE @]
    /\ wr' = [wr EXCEPT ![Scanner].pc = "returned"]
    /\ UNCHANGED <<cache, ops, StRest>>

\* the caller writes into the mapping it was given
ScTouch(id, e) ==
    /\ wr[Scanner].pc = "returned"
    /\ ~wr[Scanner].touched
    /\ wr' = [wr EXCEPT ![Scanner].result = MapSet(@, id, e),
                        ![Scanner].touched = TRUE]
    /\ UNCHANGED <<cache, ops, locks, StRest>>

\* engine.Global.Rebuild(result)
ScPublish ==
    /\ wr[Scanner].pc = "returned"
    /\ \E snap \in RebuildResults(wr[Scanner].result) :
          /\ entries' = snap.entries
          /\ rankIndex' = snap.rankIndex
    /\ data' = wr[Scanner].result
    /\ wr' = [wr EXCEPT ![Scanner].pc = "published"]
    /\ UNCHANGED <<cache, ops, locks, resp, swapVars, main, db, pendingUpdates,
                   sinceLastRebuild, rebuildTimer, callbacks, stats, staleFor, burst,
                   forced, watch, req, spaced>>

ScanInit ==
    /\ SnapshotInit
    /\ main = "init"
    /\ db = EmptyMap
    /\ cache \in ScanCaches
    /\ pendingUpdates = 0
    /\ sinceLastRebuild = MaxRebuildDelayMS
    /\ rebuildTimer = NoTimer
    /\ callbacks = 0
    /\ stats = [TotalUpdates |-> 0, RebuildsTriggered |-> 0,
                AvgUpdatesPerRebuild |-> [num |-> 0, den |-> 1]]
    /\ staleFor = -1
    /\ burst = NoBurst
    /\ forced = FALSE
    /\ watch = FALSE
    /\ req = NoReq
    /\ ops = <<>>
    /\ wr = ScanIdle
    /\ locks = LocksFree
    /\ spaced = NoSpaced
    /\ data = EmptyMap
    /\ resp = NoResp

ScanNext ==
    \/ /\ SetsStarted < MaxScanWrites
       /\ \E p \in ScanWriters, id \in CacheIDs, e \in CacheEntries : StCall(p, id, e)
    \/ \E p \in ScanWriters : StLock(p)
    \/ \E p \in ScanWriters : StWrite(p)
    \/ \E p \in ScanWriters : StUnlock(p)
    \/ /\ SetsStarted < MaxScanWrites
       /\ \E p \in ScanWriters, id \in CacheIDs : DlCall(p, id)
    \/ \E p \in ScanWriters : DlLock(p)
    \/ \E p \in ScanWriters : DlWrite(p)
    \/ \E p \in ScanWriters : DlUnlock(p)
    \/ ScCall
    \/ ScRLock
    \/ ScCopy
    \/ ScReturn
    \/ \E id \in CacheIDs, e \in CacheEntries : ScTouch(id, e)
    \/ ScPublish

SpecScan == ScanInit /\ [][ScanNext]_vars

\* GetAllWithIDs is between its RLock and its RUnlock
Scanning == wr[Scanner].pc = "copy"

\* C31: GetAllWithIDs returns a copy that is a consistent cut.  The cache does
\* not change between the call's RLock and its RUnlock, and the mapping
\* returned is the cache as it was then, whatever Set and Delete calls run
\* beside it; cache mutations after the return leave the returned mapping as
\* it is; writing into the returned mapping leaves the cache as it is; and
\* the snapshot published from an untouched mapping ranks the cache as it was
\* at the moment of the cut.
C31_ConsistentCut ==
    [][/\ Scanning => cache' = cache
       /\ Scanning /\ wr'[Scanner].pc = "returned" =>
             /\ wr'[Scanner].result = wr[Scanner].cut
             /\ wr'[Scanner].result = cache
       /\ wr[Scanner].pc = "returned" /\ cache' # cache =>
             wr'[Scanner].result = wr[Scanner].result
       /\ wr[Scanner].pc = "returned" /\ wr'[Scanner].pc = "returned"
             /\ wr'[Scanner].result # wr[Scanner].result => cache' = cache
       /\ wr[Scanner].pc = "returned" /\ wr'[Scanner].pc = "published"
             /\ ~wr[Scanner].touched =>
                 RanksCache(entries', rankIndex', wr[Scanner].cut)]_vars

\* a snapshot has been published from a cut of two users; a Set or a Delete
\* has changed the cache since the cut, and the snapshot ranks the cache of
\* the cut, not the one of now
C31_Witness ==
    /\ wr[Scanner].pc = "published"
    /\ ~wr[Scanner].touched
    /\ Cardinality(DOMAIN wr[Scanner].cut) = 2
    /\ cache # wr[Scanner].cut
    /\ wr[Scanner].result = wr[Scanner].cut
    /\ RanksCache(entries, rankIndex, wr[Scanner].cut)
    /\ ~RanksCache(entries, rankIndex, cache)

(***************************************************************************)
(* The order of cache scans and snapshot publications: SpecOrder           *)
(* The runners of SpecSerial, with Set calls changing the cache beside     *)
(* them; every scan and every publication is logged.                       *)
(***************************************************************************)
MaxOrder == 4

\* the user the concurrent Set calls write
OrderIDs == {"u1"}

\* what the steps below leave alone
OrRest == <<swapVars, main, db, staleFor, burst, forced, watch, req, spaced,
            pendingUpdates, sinceLastRebuild, rebuildTimer, callbacks, stats, locks>>

\* another goroutine's cache.Global.Set(id, e)
OrSet(id, e) ==
    /\ main = "serving"
    /\ cache' = MapSet(cache, id, e)
    /\ resp' = NoResp
    /\ UNCHANGED <<entries, rankIndex, data, wr, ops, OrRest>>

\* cache.Global.GetAllWithIDs(), logged with the copy it returns
OrScan(p) ==
    /\ wr[p].pc = "scan"
    /\ Len(ops) < MaxOrder
    /\ wr' = [wr EXCEPT ![p] = [pc |-> "publish", data |-> cache, at |-> Len(ops) + 1]]
    /\ ops' = Append(ops, [op |-> "scan", by |-> p, data |-> cache])
    /\ resp' = NoResp
    /\ UNCHANGED <<entries, rankIndex, data, cache, OrRest>>

\* engine.Global.Rebuild(copy), logged with the position of the copy's scan
OrPublish(p) ==
    /\ wr[p].pc = "publish"
    /\ Len(ops) < MaxOrder
    /\ \E snap \in RebuildResults(wr[p].data) :
          /\ entries' = snap.entries
          /\ rankIndex' = snap.rankIndex
    /\ data' = wr[p].data
    /\ wr' = [wr EXCEPT ![p] = [pc |-> "unlock"]]
    /\ ops' = Append(ops, [op |-> "publish", by |-> p, at |-> wr[p].at])
    /\ resp' = NoResp
    /\ UNCHANGED <<cache, OrRest>>

OrderNext ==
    \/ Initialize(TRUE)
    \/ \E p \in Runners : SrCall(p)
    \/ \E p \in Runners : SrCallback(p)
    \/ \E p \in Runners : SrLock(p)
    \/ \E p \in Runners : OrScan(p)
    \/ \E p \in Runners : OrPublish(p)
    \/ \E p \in Runners : SrUnlock(p)
    \/ \E id \in OrderIDs, e \in CacheEntries : OrSet(id, e)
    \/ TimerFire
    \/ ClockTick

SpecOrder == SerialInit /\ [][OrderNext]_vars

\* the positions in the log of the publications
Published == {i \in 1..Len(ops) : ops[i].op = "publish"}

\* C32: snapshots are published in the order in which their cache scans were
\* taken: of two publications the later one is of the later scan, no scan
\* is taken between another scan and its publication, and so the published
\* snapshot is never replaced by one derived from an older scan.
C32_PublicationFollowsScanOrder ==
    /\ \A i, j \in Published : i < j => ops[i].at < ops[j].at
    /\ \A i \in Published :
          /\ ops[i].at = i - 1
          /\ ops[ops[i].at].op = "scan" /\ ops[ops[i].at].by = ops[i].by
    /\ Published # {} =>
          LET last == CHOOSE i \in Published : \A j \in Published : j <= i
          IN  data = ops[ops[last].at].data

\* the timer's callback and a forced rebuild have both published; the cache
\* changed between their scans and after the second one, and the snapshot
\* is that of the second scan
C32_Witness ==
    /\ Cardinality(Published) = 2
    /\ \E i, j \in Published :
          /\ i < j
          /\ {ops[i].by, ops[j].by} = {"t1", "f1"}
          /\ ops[ops[i].at].data # ops[ops[j].at].data
          /\ data = ops[ops[j].at].data
    /\ data # cache

(***************************************************************************)
(* More claims about the scheduler's critical sections, under SpecSerial   *)
(***************************************************************************)
\* the goroutine of a fired timer has started and waits for rebuildMu
CallbackWaiting == \E p \in Runners : RunnerKind[p] = "timerCallback" /\ wr[p].pc = "lock"

\* C33: no pending update is left without a scheduled rebuild: in every
\* reachable state in which rebuildMu is free, pendingUpdates > 0 implies that
\* a debounce timer is armed or that its callback is about to run.
C33_PendingHasTimer ==
    (locks.rebuildMu = "free" /\ pendingUpdates > 0) =>
        \/ rebuildTimer.state = "armed"
        \/ callbacks > 0
        \/ CallbackWaiting

\* two updates are pending, rebuildMu is free, and the timer they armed has
\* fired: its callback waits to take the lock
C33_Witness ==
    /\ locks.rebuildMu = "free"
    /\ pendingUpdates = 2
    /\ rebuildTimer.state = "fired"
    /\ callbacks = 0
    /\ CallbackWaiting

(***************************************************************************)
(* The four locks, acquisition by acquisition: SpecLocks                   *)
(* Each call is the sequence of Lock, Unlock, RLock and RUnlock it makes   *)
(* on rebuildMu (sync.Mutex) and on stats.mu, the cache's mu and the       *)
(* snapshot's mu (sync.RWMutex), and of its reads and writes of the        *)
(* scheduler's pendingUpdates, lastRebuild and rebuildTimer.  A writer     *)
(* that has announced itself on an RWMutex keeps new readers out while it  *)
(* waits for the readers inside.                                           *)
(***************************************************************************)
LockNames == {"rebuildMu", "statsMu", "cacheMu", "snapMu"}

Goroutines == {"g1", "g2", "g3"}

\* cache.Global.Set, Clear, Delete
LkCacheWrite == <<<<"Lock", "cacheMu">>, <<"Unlock", "cacheMu">>>>

\* cache.Global.Get, Size, SearchByPrefix, GetAllWithIDs
LkCacheRead == <<<<"RLock", "cacheMu">>, <<"RUnlock", "cacheMu">>>>

\* engine.Global.GetLeaderboard, GetTop, GetRank, Size
LkSnapRead == <<<<"RLock", "snapMu">>, <<"RUnlock", "snapMu">>>>

\* stats.mu.Lock(); stats.TotalUpdates++ (or the average); stats.mu.Unlock()
LkStatsWrite == <<<<"Lock", "statsMu">>, <<"Unlock", "statsMu">>>>

\* engine.Global.Rebuild(cache.Global.GetAllWithIDs())
LkRebuild == LkCacheRead \o <<<<"Lock", "snapMu">>, <<"Unlock", "snapMu">>>>

\* a mutant: GetStats takes rebuildMu, inside stats.mu, to read pendingUpdates
LkGetStatsUnderRebuildMu ==
    <<<<"RLock", "statsMu">>>> \o LkCacheRead
        \o <<<<"Lock", "rebuildMu">>, <<"Read", "pendingUpdates">>,
             <<"Unlock", "rebuildMu">>>>
        \o <<<<"RUnlock", "statsMu">>>>

\* GetStats: stats.mu.RLock(), cache.Global.Size(), pendingUpdates, the
\* deferred RUnlock
LkGetStats ==
    <<<<"RLock", "statsMu">>>> \o LkCacheRead
        \o <<<<"Read", "pendingUpdates">>, <<"RUnlock", "statsMu">>>>

\* executeRebuild
LkExecuteRebuild ==
    <<<<"Write", "pendingUpdates">>, <<"Write", "lastRebuild">>>>
        \o LkStatsWrite \o LkRebuild

\* ForceRebuild
LkForceRebuild ==
    <<<<"Lock", "rebuildMu">>, <<"Read", "rebuildTimer">>,
      <<"Write", "pendingUpdates">>, <<"Write", "lastRebuild">>>>
        \o LkRebuild \o <<<<"Unlock", "rebuildMu">>>>

\* the timer's callback: rebuildMu.Lock(); executeRebuild()
LkTimerCallback ==
    <<<<"Lock", "rebuildMu">>>> \o LkExecuteRebuild \o <<<<"Unlock", "rebuildMu">>>>

\* scheduleRebuild below the ceiling
LkScheduleDebounced ==
    <<<<"Lock", "rebuildMu">>, <<"Write", "pendingUpdates">>>> \o LkStatsWrite
        \o <<<<"Read", "lastRebuild">>, <<"Write", "rebuildTimer">>,
             <<"Unlock", "rebuildMu">>>>

\* scheduleRebuild at the ceiling
LkScheduleCeiling ==
    <<<<"Lock", "rebuildMu">>, <<"Write", "pendingUpdates">>>> \o LkStatsWrite
        \o <<<<"Read", "lastRebuild">>>> \o LkExecuteRebuild
        \o <<<<"Unlock", "rebuildMu">>>>

\* the sequence of lock operations of each call
LkProgram ==
    [GetLeaderboard   |-> LkSnapRead,
     SearchByPrefix   |-> LkCacheRead \o LkSnapRead,
     GetStats         |-> LkGetStats,
     CreateUser       |-> LkCacheWrite \o LkScheduleDebounced,
     UpdateScore      |-> LkCacheWrite \o LkScheduleDebounced \o LkSnapRead,
     UpdateAtCeiling  |-> LkCacheWrite \o LkScheduleCeiling \o LkSnapRead,
     BulkUpdateRandom |-> LkCacheRead \o LkCacheRead \o LkCacheWrite \o LkForceRebuild,
     ForceRebuild     |-> LkForceRebuild,
     timerCallback    |-> LkTimerCallback]

LkKinds == DOMAIN LkProgram

LkFree == [l \in LockNames |-> [w |-> "free", r |-> {}]]

LkRest == <<entries, rankIndex, data, resp, swapVars, svcVars, req, ops, spaced>>

\* the operation goroutine p is at
LkOp(p) == LkProgram[wr[p].kind][wr[p].at]

\* p's record once the operation it is at is done: the next one, or the return
LkDone(p) ==
    IF wr[p].at = Len(LkProgram[wr[p].kind]) THEN [pc |-> "idle"]
    ELSE [wr[p] EXCEPT !.at = @ + 1, !.waits = FALSE]

LkRunning(p) == wr[p].pc = "run"

\* a goroutine starts a call
LkCall(p, kind) ==
    /\ wr[p].pc = "idle"
    /\ wr' = [wr EXCEPT ![p] = [pc |-> "run", kind |-> kind, at |-> 1, waits |-> FALSE]]
    /\ UNCHANGED <<locks, LkRest>>

\* Lock(): the writer announces itself when no other writer has; it has the
\* lock at once when no reader is inside
LkLock(p) ==
    /\ LkRunning(p) /\ LkOp(p)[1] = "Lock" /\ ~wr[p].waits
    /\ locks[LkOp(p)[2]].w = "free"
    /\ locks' = [locks EXCEPT ![LkOp(p)[2]].w = p]
    /\ wr' = [wr EXCEPT ![p] = IF locks[LkOp(p)[2]].r = {} THEN LkDone(p)
                                ELSE [wr[p] EXCEPT !.waits = TRUE]]
    /\ UNCHANGED LkRest

\* Lock(), continued: the last reader inside has left
LkDrained(p) ==
    /\ LkRunning(p) /\ LkOp(p)[1] = "Lock" /\ wr[p].waits
    /\ locks[LkOp(p)[2]].r = {}
    /\ wr' = [wr EXCEPT ![p] = LkDone(p)]
    /\ UNCHANGED <<locks, LkRest>>

LkUnlock(p) ==
    /\ LkRunning(p) /\ LkOp(p)[1] = "Unlock"
    /\ locks' = [locks EXCEPT ![LkOp(p)[2]].w = "free"]
    /\ wr' = [wr EXCEPT ![p] = LkDone(p)]
    /\ UNCHANGED LkRest

\* RLock(): no writer holds the lock or has announced itself
LkRLock(p) ==
    /\ LkRunning(p) /\ LkOp(p)[1] = "RLock"
    /\ locks[LkOp(p)[2]].w = "free"
    /\ locks' = [locks EXCEPT ![LkOp(p)[2]].r = @ \cup {p}]
    /\ wr' = [wr EXCEPT ![p] = LkDone(p)]
    /\ UNCHANGED LkRest

LkRUnlock(p) ==
    /\ LkRunning(p) /\ LkOp(p)[1] = "RUnlock"
    /\ locks' = [locks EXCEPT ![LkOp(p)[2]].r = @ \ {p}]
    /\ wr' = [wr EXCEPT ![p] = LkDone(p)]
    /\ UNCHANGED LkRest

\* a read or a write of the scheduler's state: no lock is touched
LkAccess(p) ==
    /\ LkRunning(p) /\ LkOp(p)[1] \in {"Read", "Write"}
    /\ wr' = [wr EXCEPT ![p] = LkDone(p)]
    /\ UNCHANGED <<locks, LkRest>>

LocksInit ==
    /\ SnapshotInit
    /\ main = "init"
    /\ db = EmptyMap
    /\ cache = EmptyMap
    /\ pendingUpdates = 0
    /\ sinceLastRebuild = MaxRebuildDelayMS
    /\ rebuildTimer = NoTimer
    /\ callbacks = 0
    /\ stats = [TotalUpdates |-> 0, RebuildsTriggered |-> 0,
                AvgUpdatesPerRebuild |-> [num |-> 0, den |-> 1]]
    /\ staleFor = -1
    /\ burst = NoBurst
    /\ forced = FALSE
    /\ watch = FALSE
    /\ req = NoReq
    /\ ops = <<>>
    /\ wr = [p \in Goroutines |-> [pc |-> "idle"]]
    /\ locks = LkFree
    /\ spaced = NoSpaced
    /\ data = EmptyMap
    /\ resp = NoResp

LocksNext ==
    \/ \E p \in Goroutines, kind \in LkKinds : LkCall(p, kind)
    \/ \E p \in Goroutines : LkLock(p)
    \/ \E p \in Goroutines : LkDrained(p)
    \/ \E p \in Goroutines : LkUnlock(p)
    \/ \E p \in Goroutines : LkRLock(p)
    \/ \E p \in Goroutines : LkRUnlock(p)
    \/ \E p \in Goroutines : LkAccess(p)

SpecLocks == LocksInit /\ [][LocksNext]_vars

\* the locks p holds, as a writer or as a reader
LkHeld(p) ==
    {l \in LockNames :
        \/ p \in locks[l].r
        \/ locks[l].w = p /\ ~(LkRunning(p) /\ wr[p].waits /\ LkOp(p)[2] = l)}

\* p can take its next step
LkCanStep(p) ==
    LET op == LkOp(p)
    IN  CASE op[1] = "Lock" -> IF wr[p].waits THEN locks[op[2]].r = {}
                                ELSE locks[op[2]].w = "free"
          [] op[1] = "RLock" -> locks[op[2]].w = "free"
          [] OTHER -> TRUE

\* one order of the four locks
LkRank == [rebuildMu |-> 1, statsMu |-> 2, cacheMu |-> 3, snapMu |-> 4]

\* C34: the four locks are never acquired in a cyclic order: a goroutine
\* that asks for a lock holds only locks that come before it in one fixed
\* order (rebuildMu, stats.mu, the cache's mu, the snapshot's mu); and under
\* no interleaving of the calls and the timer's callback is there a state in
\* which calls are in progress and none of them can go on.
C34_NoCyclicLocking ==
    /\ \A p \in Goroutines :
          (LkRunning(p) /\ LkOp(p)[1] \in {"Lock", "RLock"}) =>
              \A h \in LkHeld(p) : LkRank[h] < LkRank[LkOp(p)[2]]
    /\ (\E p \in Goroutines : LkRunning(p)) =>
          \E p \in Goroutines : LkRunning(p) /\ LkCanStep(p)

\* GetStats is inside stats.mu and the cache's mu; a write notification holds
\* rebuildMu and has announced itself on stats.mu; a timer callback waits for
\* rebuildMu
C34_Witness ==
    \E p, q, t \in Goroutines :
        /\ LkRunning(p) /\ LkRunning(q) /\ LkRunning(t)
        /\ wr[p].kind = "GetStats" /\ LkHeld(p) = {"statsMu", "cacheMu"}
        /\ wr[q].kind = "UpdateAtCeiling" /\ wr[q].waits /\ LkHeld(q) = {"rebuildMu"}
        /\ wr[t].kind = "timerCallback" /\ wr[t].at = 1 /\ ~LkCanStep(t)

(***************************************************************************)
(* The rank UpdateScore answers with, checked under SpecCalls              *)
(***************************************************************************)
\* the competition rank a score has among the scores of the cache c: one
\* more than the number of users with a higher score
RankOfScore(c, score) == 1 + Cardinality({id \in DOMAIN c : c[id].Score > score})

\* C35: the Rank in the response of a successful UpdateScore(userID, newScore)
\* is the user's competition rank for newScore: it is read from a snapshot
\* that already includes the new score.
C35_RankIncludesNewScore ==
    (req.on /\ req.op = "UpdateScore" /\ resp.op = "UpdateScore" /\ resp.err = "none") =>
        resp.val = RankOfScore(cache, req.score)

(***************************************************************************)
(* A bulk update, statement by statement, beside other cache calls:        *)
(* SpecBulk                                                                *)
(***************************************************************************)
\* the goroutine running BulkUpdateRandom or BulkUpdateToValue
Bulker == "b1"

BkRest == <<entries, rankIndex, data, resp, swapVars, main, pendingUpdates,
            sinceLastRebuild, rebuildTimer, callbacks, stats, staleFor, burst, forced,
            watch, req, ops, spaced, locks>>

\* allUsers := cache.Global.GetAllWithIDs(); shuffle; userIDs = userIDs[:count]
BkCall(count) ==
    /\ wr[Bulker].pc = "idle"
    /\ \E picked \in SUBSET DOMAIN cache :
          /\ Cardinality(picked) = Min(count, Cardinality(DOMAIN cache))
          /\ wr' = [wr EXCEPT ![Bulker] = [pc |-> "store", todo |-> picked]]
    /\ UNCHANGED <<db, cache, BkRest>>

\* the next ID of the loop and its UpdateOne, which the store may refuse
BkStore(score, ok) ==
    /\ wr[Bulker].pc = "store"
    /\ \E id \in wr[Bulker].todo :
          /\ wr' = [wr EXCEPT ![Bulker] =
                       IF ok THEN [pc |-> "get", todo |-> wr[Bulker].todo \ {id},
                                   id |-> id, score |-> score]
                       ELSE [pc |-> "store", todo |-> wr[Bulker].todo \ {id}]]
          /\ db' = IF ok /\ id \in DOMAIN db THEN [db EXCEPT ![id].Score = score] ELSE db
    /\ UNCHANGED <<cache, BkRest>>

\* entry, _ := cache.Global.Get(id)
BkGet ==
    /\ wr[Bulker].pc = "get"
    /\ wr' = [wr EXCEPT ![Bulker] =
                 [pc |-> "set", todo |-> wr[Bulker].todo, id |-> wr[Bulker].id,
                  score |-> wr[Bulker].score, entry |-> CacheGet(cache, wr[Bulker].id)]]
    /\ UNCHANGED <<db, cache, BkRest>>

\* cache.Global.Set(id, cache.Entry{Username: entry.Username, Score: newScore})
BkSet ==
    /\ wr[Bulker].pc = "set"
    /\ cache' = MapSet(cache, wr[Bulker].id,
                       [Username |-> wr[Bulker].entry.Username, Score |-> wr[Bulker].score])
    /\ wr' = [wr EXCEPT ![Bulker] = [pc |-> "store", todo |-> wr[Bulker].todo]]
    /\ UNCHANGED <<db, BkRest>>

\* the loop is over: ForceRebuild(), and the call returns
BkForce ==
    /\ wr[Bulker].pc = "store"
    /\ wr[Bulker].todo = {}
    /\ \E snap \in RebuildResults(cache) :
          /\ entries' = snap.entries
          /\ rankIndex' = snap.rankIndex
    /\ data' = cache
    /\ wr' = [wr EXCEPT ![Bulker] = [pc |-> "idle"]]
    /\ UNCHANGED <<db, cache, resp, swapVars, main, pendingUpdates, sinceLastRebuild,
                   rebuildTimer, callbacks, stats, staleFor, burst, forced, watch, req,
                   ops, spaced, locks>>

\* another goroutine's cache.Global.Delete(id)
BkDelete(id) ==
    /\ cache' = CacheDelete(cache, id)
    /\ UNCHANGED <<db, wr, BkRest>>

\* another goroutine's UpdateScore: the store's update and the cache Set
BkUpdateScore(id, score) ==
    /\ id \in DOMAIN db
    /\ db' = [db EXCEPT ![id].Score = score]
    /\ cache' = MapSet(cache, id, [Username |-> db[id].Username, Score |-> score])
    /\ UNCHANGED <<wr, BkRest>>

BulkInit ==
    /\ SnapshotInit
    /\ main = "serving"
    /\ db \in [CacheIDs -> CacheEntries]
    /\ cache = db
    /\ pendingUpdates = 0
    /\ sinceLastRebuild = 0
    /\ rebuildTimer = NoTimer
    /\ callbacks = 0
    /\ stats = [TotalUpdates |-> 0, RebuildsTriggered |-> 0,
                AvgUpdatesPerRebuild |-> [num |-> 0, den |-> 1]]
    /\ staleFor = -1
    /\ burst = NoBurst
    /\ forced = FALSE
    /\ watch = FALSE
    /\ req = NoReq
    /\ ops = <<>>
    /\ wr = [p \in {Bulker} |-> [pc |-> "idle"]]
    /\ locks = LocksFree
    /\ spaced = NoSpaced
    /\ data = EmptyMap
    /\ resp = NoResp

BulkNext ==
    \/ \E count \in 0..MaxBulk : BkCall(count)
    \/ \E score \in ValidScores, ok \in BOOLEAN : BkStore(score, ok)
    \/ BkGet
    \/ BkSet
    \/ BkForce
    \/ \E id \in CacheIDs : BkDelete(id)
    \/ \E id \in CacheIDs, score \in ValidScores : BkUpdateScore(id, score)

SpecBulk == BulkInit /\ [][BulkNext]_vars

\* C36: bulk updates change scores only: under any interleaving with other
\* cache calls, Delete and UpdateScore among them, the per-item write of a
\* bulk update never adds an ID the cache does not hold at that moment and
\* never changes the username of an entry.
C36_BulkChangesScoresOnly ==
    [][(wr[Bulker].pc = "set" /\ wr'[Bulker].pc = "store") =>
          /\ DOMAIN cache' = DOMAIN cache
          /\ \A id \in DOMAIN cache : cache'[id].Username = cache[id].Username]_vars

(***************************************************************************)
(* The range of the scores, checked under SpecCalls                        *)
(***************************************************************************)
\* C37: every score a service write (CreateUser, UpdateScore, a bulk update)
\* puts into the cache lies in [100, 5000]; the cache having been loaded with
\* scores in that range, every score of the cache and of the published
\* snapshot is within [100, 5000] in every reachable state.
C37_ScoresInRange ==
    /\ \A id \in DOMAIN cache : 100 <= cache[id].Score /\ cache[id].Score <= 5000
    /\ \A i \in 1..Len(entries) : 100 <= entries[i].Score /\ entries[i].Score <= 5000

\* writes with 99 and with 5001 have been refused, the last one a bulk update
\* to 5001, and the snapshot ranks users at both ends of the range
C37_Witness ==
    /\ req.on
    /\ req.op = "BulkUpdateToValue"
    /\ req.score = 5001
    /\ resp.err = "validation"
    /\ \E i, j \in 1..Len(entries) : entries[i].Score = 5000 /\ entries[j].Score = 100
    /\ \E id \in DOMAIN cache : cache[id].Score = 5000

(***************************************************************************)
(* The accesses to the scheduler's state, checked under SpecLocks          *)
(***************************************************************************)
\* p is about to read or write one of pendingUpdates, lastRebuild, rebuildTimer
LkAccessing(p) == LkRunning(p) /\ LkOp(p)[1] \in {"Read", "Write"}

\* C38: every read and write of the scheduler's shared state (pendingUpdates,
\* lastRebuild, rebuildTimer) is made while holding rebuildMu, in
\* scheduleRebuild, the timer's callback, executeRebuild, ForceRebuild and
\* GetStats, so that no two accesses to it race.
C38_SchedulerStateUnderRebuildMu ==
    /\ \A p \in Goroutines : LkAccessing(p) => "rebuildMu" \in LkHeld(p)
    /\ \A p, q \in Goroutines :
          (p # q /\ LkAccessing(p) /\ LkAccessing(q) /\ LkOp(p)[2] = LkOp(q)[2]) =>
              LkOp(p)[1] = "Read" /\ LkOp(q)[1] = "Read"

====
